---- MODULE Spec2Model ----
(***************************************************************************)
(* A model of the git-workflow helper: the Conventional-Commits validator  *)
(* of src/commands/commit.ts, the branch-name validator, the queries of    *)
(* utils/git, and the commands built on them: branch:create, commit:check, *)
(* commit:validate, status, sync, rebase and pr.  Strings are sequences of *)
(* one-character strings, so that length, trimming, splitting and pattern  *)
(* matching are computed the way the TypeScript code computes them; the    *)
(* fate of a git command follows from the state of the repository and from *)
(* the kinds of command that fail in the run.                              *)
(***************************************************************************)
EXTENDS Integers, Sequences, FiniteSets, TLC

VARIABLES
  message,       \* the argument of validateCommitMessage
  result,        \* the CommitMessageValidation it returned, or NoResult
  pc,            \* "input" before the call, "done" after it
  outcome,       \* how the call ended: "returned", "threw" or "exit1"
  name,          \* the argument of validateBranchName
  branchResult,  \* the object validateBranchName returned
  env,           \* the repository and the remote the git commands run against
  opts,          \* the options a command is called with
  trace,         \* the git commands a command ran, in order, each with its fate
  ret            \* what a function of utils/git or of status returned

vars == <<message, result, pc, outcome, name, branchResult,
          env, opts, trace, ret>>

----------------------------------------------------------------------------
(* Characters and the character classes of the regular expressions.        *)

LowerCase ==
  {"a","b","c","d","e","f","g","h","i","j","k","l","m",
   "n","o","p","q","r","s","t","u","v","w","x","y","z"}

UpperCase ==
  {"A","B","C","D","E","F","G","H","I","J","K","L","M",
   "N","O","P","Q","R","S","T","U","V","W","X","Y","Z"}

Digits == {"0","1","2","3","4","5","6","7","8","9"}

\* \w of a JavaScript regular expression without the u flag.
WordChars == LowerCase \cup UpperCase \cup Digits \cup {"_"}

\* \s, which is also what String.prototype.trim strips: white space and
\* line terminators.
WhiteSpace == {" ", "\t", "\n", "\r", "\f"}

\* The characters "." does not match.
LineTerminators == {"\n", "\r"}

\* Case folding of the i flag, on the letters.
ToLower(c) ==
  CASE c = "A" -> "a" [] c = "B" -> "b" [] c = "C" -> "c" [] c = "D" -> "d"
    [] c = "E" -> "e" [] c = "F" -> "f" [] c = "G" -> "g" [] c = "H" -> "h"
    [] c = "I" -> "i" [] c = "J" -> "j" [] c = "K" -> "k" [] c = "L" -> "l"
    [] c = "M" -> "m" [] c = "N" -> "n" [] c = "O" -> "o" [] c = "P" -> "p"
    [] c = "Q" -> "q" [] c = "R" -> "r" [] c = "S" -> "s" [] c = "T" -> "t"
    [] c = "U" -> "u" [] c = "V" -> "v" [] c = "W" -> "w" [] c = "X" -> "x"
    [] c = "Y" -> "y" [] c = "Z" -> "z" [] OTHER -> c

----------------------------------------------------------------------------
(* String operations of the JavaScript runtime used by the validator.      *)

IsBlank(s) == \A i \in 1..Len(s) : s[i] \in WhiteSpace

\* The index of the first character that is no white space.
FirstNonSpace(s) ==
  CHOOSE i \in 1..Len(s) :
    s[i] \notin WhiteSpace /\ \A j \in 1..(i - 1) : s[j] \in WhiteSpace

\* The index of the last character that is no white space.
LastNonSpace(s) ==
  CHOOSE i \in 1..Len(s) :
    s[i] \notin WhiteSpace /\ \A j \in (i + 1)..Len(s) : s[j] \in WhiteSpace

\* String.prototype.trim: s without the white space and line terminators at
\* its two ends.
Trim(s) ==
  IF IsBlank(s) THEN <<>> ELSE SubSeq(s, FirstNonSpace(s), LastNonSpace(s))

\* The positions of the separator in s, in increasing order.
RECURSIVE SortedSeq(_)
SortedSeq(S) ==
  IF S = {} THEN <<>>
  ELSE LET m == CHOOSE x \in S : \A y \in S : x <= y
       IN  <<m>> \o SortedSeq(S \ {m})

\* String.prototype.split with a one-character separator: the pieces between
\* consecutive separators; a string without the separator is one piece.
Split(s, sep) ==
  LET at  == SortedSeq({i \in 1..Len(s) : s[i] = sep})
      n   == Len(at)
      from(k) == IF k = 1 THEN 1 ELSE at[k - 1] + 1
      to(k)   == IF k = n + 1 THEN Len(s) ELSE at[k] - 1
  IN  [k \in 1..(n + 1) |-> SubSeq(s, from(k), to(k))]

\* Array.prototype.slice(1)
Slice1(lines) == SubSeq(lines, 2, Len(lines))

RECURSIVE Join(_, _)
\* Array.prototype.join; the separator is a string.
Join(lines, sep) ==
  IF Len(lines) = 0 THEN <<>>
  ELSE IF Len(lines) = 1 THEN lines[1]
  ELSE lines[1] \o sep \o Join(Tail(lines), sep)

----------------------------------------------------------------------------
(* Program constants of validateCommitMessage.                             *)

HeaderMax == 72

SubjectMax == 50

BodyMax == 1000

validTypes ==
  << <<"f","e","a","t">>, <<"f","i","x">>, <<"d","o","c","s">>,
     <<"s","t","y","l","e">>, <<"r","e","f","a","c","t","o","r">>,
     <<"t","e","s","t">>, <<"c","h","o","r","e">>, <<"p","e","r","f">>,
     <<"c","i">>, <<"b","u","i","l","d">>, <<"r","e","v","e","r","t">> >>

\* The alternatives of imperativePattern, in the order of the pattern.
imperativeVerbs ==
  << <<"a","d","d">>, <<"u","p","d","a","t","e">>, <<"f","i","x">>,
     <<"r","e","m","o","v","e">>, <<"c","r","e","a","t","e">>,
     <<"d","e","l","e","t","e">>, <<"i","m","p","l","e","m","e","n","t">>,
     <<"r","e","f","a","c","t","o","r">>, <<"i","m","p","r","o","v","e">>,
     <<"c","h","a","n","g","e">> >>

\* includes, comparing without regard to case.
IncludesIgnoreCase(list, x) ==
  \E k \in 1..Len(list) :
     /\ Len(list[k]) = Len(x)
     /\ \A i \in 1..Len(x) : ToLower(list[k][i]) = ToLower(x[i])

\* Array.prototype.includes
Includes(list, x) == \E k \in 1..Len(list) : list[k] = x

(* The messages.  A message is the sequence of the pieces the code         *)
(* concatenates: its literal text, and the value spliced into it.          *)

ErrEmpty == <<"Commit message cannot be empty">>

ErrFormat ==
  <<"Commit message does not follow Conventional Commits format.\nExpected: <type>(<scope>): <subject>\nExample: feat(auth): add login functionality">>

ErrSubjectEmpty == <<"Subject cannot be empty">>

WarnHeaderLength(n) ==
  <<"Header should be 50 characters or less (currently ", n, ")">>

WarnType(type) ==
  <<"Type \"", type,
    "\" is not a standard conventional commit type.\nCommon types: ",
    Join(validTypes, <<",", " ">>)>>

WarnSubjectLength == <<"Subject should be concise (50 characters or less)">>

WarnImperative ==
  <<"Subject should use imperative mood (e.g., \"add\" not \"added\")">>

WarnBodyLength == <<"Body should be concise (1000 characters or less)">>

----------------------------------------------------------------------------
(* conventionalCommitPattern = /^(\w+)(\([^)]+\))?(!)?:\s+(.+)$/ as a       *)
(* backtracking matcher: every greedy quantifier first takes all it can    *)
(* and gives back one character at a time when the rest fails; an optional *)
(* group is tried present before absent.  An unmatched optional group      *)
(* (undefined in JavaScript) is the empty sequence: a matched one never is.*)

NoMatch == [matched |-> FALSE, type |-> <<>>, scope |-> <<>>,
            breaking |-> <<>>, subject |-> <<>>]

RECURSIVE RunLength(_, _, _)
\* How many characters of class cls follow each other in h from index i on.
RunLength(h, i, cls) ==
  IF i > Len(h) \/ h[i] \notin cls THEN 0 ELSE 1 + RunLength(h, i + 1, cls)

RECURSIVE RunLengthNot(_, _, _)
\* How many characters other than c follow each other in h from index i on.
RunLengthNot(h, i, c) ==
  IF i > Len(h) \/ h[i] = c THEN 0 ELSE 1 + RunLengthNot(h, i + 1, c)

\* (.+)$ from index i: one or more characters, none a line terminator, up to
\* the end of the input.
MatchSubject(h, i) ==
  /\ i <= Len(h)
  /\ \A j \in i..Len(h) : h[j] \notin LineTerminators

RECURSIVE MatchSpaces(_, _, _, _, _)
\* \s+ having taken k characters after the colon at index c, then (.+)$.
MatchSpaces(h, a, b, c, k) ==
  IF k < 1 THEN NoMatch
  ELSE IF MatchSubject(h, c + k + 1)
       THEN [matched  |-> TRUE,
             type     |-> SubSeq(h, 1, a),
             scope    |-> SubSeq(h, a + 1, b),
             breaking |-> SubSeq(h, b + 1, c - 1),
             subject  |-> SubSeq(h, c + k + 1, Len(h))]
       ELSE MatchSpaces(h, a, b, c, k - 1)

\* ":" at index c, then \s+(.+)$.
MatchColon(h, a, b, c) ==
  IF c <= Len(h) /\ h[c] = ":"
  THEN MatchSpaces(h, a, b, c, RunLength(h, c + 1, WhiteSpace))
  ELSE NoMatch

\* (!)? after the scope, which ends at index b.
MatchBreaking(h, a, b) ==
  LET with == IF b + 1 <= Len(h) /\ h[b + 1] = "!"
              THEN MatchColon(h, a, b, b + 2) ELSE NoMatch
  IN  IF with.matched THEN with ELSE MatchColon(h, a, b, b + 1)

RECURSIVE MatchScopeBody(_, _, _)
\* [^)]+ having taken k characters after the "(" at index a + 1, then "\)".
MatchScopeBody(h, a, k) ==
  IF k < 1 THEN NoMatch
  ELSE LET close == a + 2 + k
           rest  == IF close <= Len(h) /\ h[close] = ")"
                    THEN MatchBreaking(h, a, close) ELSE NoMatch
       IN  IF rest.matched THEN rest ELSE MatchScopeBody(h, a, k - 1)

\* (\([^)]+\))? after the type, which ends at index a.
MatchScope(h, a) ==
  LET with == IF a + 1 <= Len(h) /\ h[a + 1] = "("
              THEN MatchScopeBody(h, a, RunLengthNot(h, a + 2, ")"))
              ELSE NoMatch
  IN  IF with.matched THEN with ELSE MatchBreaking(h, a, a)

RECURSIVE MatchType(_, _)
\* ^(\w+) having taken a characters.
MatchType(h, a) ==
  IF a < 1 THEN NoMatch
  ELSE LET rest == MatchScope(h, a)
       IN  IF rest.matched THEN rest ELSE MatchType(h, a - 1)

\* The pattern with (\w*) for the type: a header may start at the scope, the
\* "!" or the colon.
MatchConventionalOptionalType(h) ==
  IF RunLength(h, 1, WordChars) = 0 THEN MatchScope(h, 0)
  ELSE MatchType(h, RunLength(h, 1, WordChars))

\* header.match(conventionalCommitPattern)
MatchConventional(h) == MatchType(h, RunLength(h, 1, WordChars))

\* One alternative of imperativePattern, the i flag left out.
StartsWithCaseSensitive(s, w) ==
  /\ Len(s) >= Len(w)
  /\ \A i \in 1..Len(w) : s[i] = w[i]

\* One alternative of imperativePattern at the start of the subject, under
\* the i flag.
StartsWithIgnoreCase(s, w) ==
  /\ Len(s) >= Len(w)
  /\ \A i \in 1..Len(w) : ToLower(s[i]) = ToLower(w[i])

\* imperativePattern.test(subject)
TestImperative(subject) ==
  \E k \in 1..Len(imperativeVerbs) :
     StartsWithIgnoreCase(subject, imperativeVerbs[k])

----------------------------------------------------------------------------
(* validateCommitMessage                                                   *)

\* The checks on a header that matched, the subject warned from the limit on.
MatchedChecksSubjectAtLeast(m) ==
  LET typeWarn == IF ~Includes(validTypes, m.type)
                  THEN <<WarnType(m.type)>> ELSE <<>>
      subjErr  == IF Len(m.subject) = 0 THEN <<ErrSubjectEmpty>> ELSE <<>>
      subjWarn == IF Len(m.subject) # 0 /\ Len(m.subject) >= SubjectMax
                  THEN <<WarnSubjectLength>> ELSE <<>>
      moodWarn == IF ~TestImperative(m.subject)
                  THEN <<WarnImperative>> ELSE <<>>
  IN  [errors |-> subjErr, warnings |-> typeWarn \o subjWarn \o moodWarn]

\* The checks on a header that matched: type, subject, imperative mood.
\* Returns the errors and warnings they push, in the order of the code.
MatchedChecks(m) ==
  LET typeWarn == IF ~Includes(validTypes, m.type)
                  THEN <<WarnType(m.type)>> ELSE <<>>
      subjErr  == IF Len(m.subject) = 0 THEN <<ErrSubjectEmpty>> ELSE <<>>
      subjWarn == IF Len(m.subject) # 0 /\ Len(m.subject) > SubjectMax
                  THEN <<WarnSubjectLength>> ELSE <<>>
      moodWarn == IF ~TestImperative(m.subject)
                  THEN <<WarnImperative>> ELSE <<>>
  IN  [errors |-> subjErr, warnings |-> typeWarn \o subjWarn \o moodWarn]

\* The format check without its else: the checks of a matched header run on
\* the empty groups of a header that did not match.
FormatChecksFallThrough(header) ==
  LET m == MatchConventional(header)
  IN  IF ~m.matched
      THEN [errors |-> <<ErrFormat>> \o MatchedChecks(m).errors,
            warnings |-> MatchedChecks(m).warnings]
      ELSE MatchedChecks(m)

\* The format check of the header: the error of a header that does not match,
\* the checks of one that does.
FormatChecks(header) ==
  LET m == MatchConventional(header)
  IN  IF ~m.matched
      THEN [errors |-> <<ErrFormat>>, warnings |-> <<>>]
      ELSE MatchedChecks(m)

\* The header length check, against the limit its warning text names.
HeaderChecksFifty(header) ==
  IF Len(header) > SubjectMax THEN <<WarnHeaderLength(Len(header))>> ELSE <<>>

\* The header length check.
HeaderChecks(header) ==
  IF Len(header) > HeaderMax THEN <<WarnHeaderLength(Len(header))>> ELSE <<>>

\* The body length check, warning from the limit on.
BodyChecksAtLeast(body) ==
  IF Len(body) > 0 /\ Len(body) >= BodyMax THEN <<WarnBodyLength>> ELSE <<>>

\* The body length check.
BodyChecks(body) ==
  IF Len(body) > 0 /\ Len(body) > BodyMax THEN <<WarnBodyLength>> ELSE <<>>

\* The guard of the early return, with the trim left out.
IsEmptyMessageNoTrim(msg) == Len(msg) = 0

\* !message || message.trim().length === 0
IsEmptyMessage(msg) == Len(msg) = 0 \/ Len(Trim(msg)) = 0

\* The returned object, with warnings counted against validity.
MakeResultWarningsBlock(errors, warnings) ==
  [valid |-> Len(errors) = 0 /\ Len(warnings) = 0,
   errors |-> errors, warnings |-> warnings]

\* The object returned at the end.
MakeResult(errors, warnings) ==
  [valid |-> Len(errors) = 0, errors |-> errors, warnings |-> warnings]

\* Destructuring the match before looking whether it is null: a TypeError
\* for every header that does not match.
DestructureThrowsUnguarded(header) ==
  LET m == MatchConventional(header)
  IN  ~m.matched

\* const [, type, scope, breaking, subject] = match throws a TypeError when
\* match is null; the statement stands in the else of if (!match).
DestructureThrows(header) ==
  LET m == MatchConventional(header)
  IN  IF ~m.matched THEN FALSE ELSE ~m.matched

\* The places where validateCommitMessage could end in a TypeError: the
\* header lines[0] read as a string when split gave no line, and the
\* destructuring of the match.
validateCommitMessageThrows(msg) ==
  IF IsEmptyMessage(msg)
  THEN FALSE
  ELSE LET lines == Split(Trim(msg), "\n")
       IN  Len(lines) = 0 \/ DestructureThrows(lines[1])

validateCommitMessage(msg) ==
  IF IsEmptyMessage(msg)
  THEN [valid |-> FALSE, errors |-> <<ErrEmpty>>, warnings |-> <<>>]
  ELSE LET lines  == Split(Trim(msg), "\n")
           header == lines[1]
           body   == Join(Slice1(lines), <<"\n">>)
           fmt    == FormatChecks(header)
       IN  MakeResult(fmt.errors,
                      HeaderChecks(header) \o fmt.warnings \o BodyChecks(body))

----------------------------------------------------------------------------
(* validateBranchName                                                      *)

sFeature == <<"f","e","a","t","u","r","e","/">>
sBugfix  == <<"b","u","g","f","i","x","/">>
sHotfix  == <<"h","o","t","f","i","x","/">>
sRelease == <<"r","e","l","e","a","s","e","/">>
sMain    == <<"m","a","i","n">>
sDevelop == <<"d","e","v","e","l","o","p">>
sMaster  == <<"m","a","s","t","e","r">>

\* [a-z0-9-] with the i flag.
SlugCharsIgnoreCase == LowerCase \cup UpperCase \cup Digits \cup {"-"}

\* [a-z0-9-]
SlugChars == LowerCase \cup Digits \cup {"-"}

\* The six patterns, each ^literal$ or ^literal[a-z0-9-]+$.
patterns ==
  << [literal |-> sFeature, slug |-> TRUE],
     [literal |-> sBugfix,  slug |-> TRUE],
     [literal |-> sHotfix,  slug |-> TRUE],
     [literal |-> sRelease, slug |-> TRUE],
     [literal |-> sMain,    slug |-> FALSE],
     [literal |-> sDevelop, slug |-> FALSE] >>

\* The literal of a pattern matched at the start of the input.
MatchLiteral(s, lit) ==
  /\ Len(s) >= Len(lit)
  /\ \A i \in 1..Len(lit) : s[i] = lit[i]

\* pattern.test(name) with the slug allowed to be empty.
TestPatternStar(p, s) ==
  /\ MatchLiteral(s, p.literal)
  /\ IF p.slug
     THEN Len(p.literal) + RunLength(s, Len(p.literal) + 1, SlugChars) = Len(s)
     ELSE Len(s) = Len(p.literal)

\* pattern.test(name): the literal, then for a slug pattern the longest run
\* of slug characters, one at least, and then the end of the input.
TestPattern(p, s) ==
  /\ MatchLiteral(s, p.literal)
  /\ IF p.slug
     THEN LET n == RunLength(s, Len(p.literal) + 1, SlugChars)
          IN  n >= 1 /\ Len(p.literal) + n = Len(s)
     ELSE Len(s) = Len(p.literal)

\* The error of an invalid name: the name between two pieces of text.
BranchError(s) ==
  <<"Branch name \"", s,
    "\" does not follow convention.\nValid formats: feature/name, bugfix/name, hotfix/name, release/name">>

validateBranchName(s) ==
  LET isValid == \E k \in 1..Len(patterns) : TestPattern(patterns[k], s)
  IN  IF ~isValid
      THEN [valid |-> FALSE, error |-> BranchError(s)]
      ELSE [valid |-> TRUE]

----------------------------------------------------------------------------
(* utils/git: the queries on the repository.  The repository is a record:  *)
(*   remote  the branches of origin, as names without "origin/";           *)
(*   head    the branch origin/HEAD points to, or NoHead;                  *)
(*   local   the local branches;                                           *)
(*   current the branch that is checked out;                               *)
(*   dirty   whether the working tree has uncommitted changes;             *)
(*   upstream whether the current branch tracks a remote branch;           *)
(*   pushed  whether the upstream is at the commit of HEAD;                *)
(*   ahead   the lines git log --oneline prints for base..HEAD;            *)
(*   behind  whether origin/develop has commits HEAD does not have;        *)
(*   rebaseStatus the exit status of git rebase: 0, 1 on conflicts, or 128;*)
(*   fails   the kinds of git command that fail in this run.               *)

sOrigin      == <<"o","r","i","g","i","n","/">>
sRefsRemotes == <<"r","e","f","s","/","r","e","m","o","t","e","s","/">> \o sOrigin
sHeadArrow   == <<"H","E","A","D"," ","-",">"," ">>
sDevelopment == <<"d","e","v","e","l","o","p","m","e","n","t">>
sTrunk       == <<"t","r","u","n","k">>
sFeatureAdd  == sFeature \o <<"a","d","d">>
sFeatureAddLogging == sFeatureAdd \o <<"-","l","o","g","g","i","n","g">>

NoHead == <<>>

\* One git command that was run: its text and whether it succeeded.
Cmd(text, ok) == [cmd |-> text, ok |-> ok]

\* String.prototype.includes: pat occurs somewhere in text.
StringIncludes(text, pat) ==
  \E i \in 0..(Len(text) - Len(pat)) : SubSeq(text, i + 1, i + Len(pat)) = pat

\* String.prototype.replace(pat, ''): text without the first occurrence of
\* pat, or text itself when pat does not occur.
RemoveFirst(text, pat) ==
  IF ~StringIncludes(text, pat) THEN text
  ELSE LET i == CHOOSE j \in 0..(Len(text) - Len(pat)) :
                  /\ SubSeq(text, j + 1, j + Len(pat)) = pat
                  /\ \A k \in 0..(j - 1) : SubSeq(text, k + 1, k + Len(pat)) # pat
       IN  SubSeq(text, 1, i) \o SubSeq(text, i + Len(pat) + 1, Len(text))

\* The remote branches in the order git lists them.
RemoteOrder ==
  <<sDevelop, sDevelopment, sFeatureAdd, sFeatureAddLogging, sMain, sMaster,
    sTrunk>>

RECURSIVE BranchLines(_, _)
\* The lines "  origin/<branch>\n" of the branches of list that are in set.
BranchLines(list, set) ==
  IF Len(list) = 0 THEN <<>>
  ELSE (IF list[1] \in set
        THEN <<" ", " ">> \o sOrigin \o list[1] \o <<"\n">> ELSE <<>>)
       \o BranchLines(Tail(list), set)

\* What git branch -r prints: the line of origin/HEAD if it is set, and a
\* line for each remote branch.
BranchROutput(e) ==
  (IF e.head # NoHead
   THEN <<" ", " ">> \o sOrigin \o sHeadArrow \o sOrigin \o e.head \o <<"\n">>
   ELSE <<>>)
  \o BranchLines(RemoteOrder, e.remote)

\* What git symbolic-ref refs/remotes/origin/HEAD prints.
SymbolicRefOutput(e) == sRefsRemotes \o e.head \o <<"\n">>

\* git fetch origin, with or without --quiet or a branch.
FetchOk(e) == "fetch" \notin e.fails

\* git branch -r
BranchROk(e) == "branch-r" \notin e.fails

\* git symbolic-ref refs/remotes/origin/HEAD fails when origin/HEAD is not set.
SymbolicRefOk(e) == "symbolic-ref" \notin e.fails /\ e.head # NoHead

cGitDir      == <<"git rev-parse --git-dir">>
cFetchQuiet  == <<"git fetch origin --quiet">>
cBranchR     == <<"git branch -r">>
cSymbolicRef == <<"git symbolic-ref refs/remotes/origin/HEAD">>

\* The second try of detectDefaultBranch and the fallback: fetch, list the
\* remote branches, and look for origin/main, origin/master, origin/develop
\* in the listing; main when a command fails or none is found.
Probe(e) ==
  IF ~FetchOk(e)
  THEN [value |-> sMain, cmds |-> <<Cmd(cFetchQuiet, FALSE)>>]
  ELSE IF ~BranchROk(e)
  THEN [value |-> sMain,
        cmds |-> <<Cmd(cFetchQuiet, TRUE), Cmd(cBranchR, FALSE)>>]
  ELSE LET branches == BranchROutput(e)
       IN  [value |->
              IF StringIncludes(branches, sOrigin \o sMain) THEN sMain
              ELSE IF StringIncludes(branches, sOrigin \o sMaster) THEN sMaster
              ELSE IF StringIncludes(branches, sOrigin \o sDevelop) THEN sDevelop
              ELSE sMain,
            cmds |-> <<Cmd(cFetchQuiet, TRUE), Cmd(cBranchR, TRUE)>>]

detectDefaultBranch(e) ==
  LET symbolicRef == IF SymbolicRefOk(e) THEN Trim(SymbolicRefOutput(e)) ELSE <<>>
  IN  IF SymbolicRefOk(e) /\ Len(symbolicRef) > 0
      THEN [value |-> RemoveFirst(symbolicRef, sRefsRemotes),
            cmds  |-> <<Cmd(cSymbolicRef, TRUE)>>]
      ELSE LET p == Probe(e)
           IN  [value |-> p.value,
                cmds  |-> <<Cmd(cSymbolicRef, SymbolicRefOk(e))>> \o p.cmds]

\* branches.includes('origin/develop') on the listing of git branch -r
HasDevelop(e) == StringIncludes(BranchROutput(e), sOrigin \o sDevelop)

getIntegrationBranch(e) ==
  IF ~FetchOk(e)
  THEN LET d == detectDefaultBranch(e)
       IN  [value |-> d.value, cmds |-> <<Cmd(cFetchQuiet, FALSE)>> \o d.cmds]
  ELSE IF ~BranchROk(e)
  THEN LET d == detectDefaultBranch(e)
       IN  [value |-> d.value,
            cmds |-> <<Cmd(cFetchQuiet, TRUE), Cmd(cBranchR, FALSE)>> \o d.cmds]
  ELSE IF HasDevelop(e)
  THEN [value |-> sDevelop,
        cmds |-> <<Cmd(cFetchQuiet, TRUE), Cmd(cBranchR, TRUE)>>]
  ELSE LET d == detectDefaultBranch(e)
       IN  [value |-> d.value,
            cmds |-> <<Cmd(cFetchQuiet, TRUE), Cmd(cBranchR, TRUE)>> \o d.cmds]

----------------------------------------------------------------------------
(* branch:create                                                           *)

cBranchList  == <<"git branch --list">>
cBranchRList == <<"git branch -r --list">>
cFetch       == <<"git fetch origin">>
cCheckout(b) == <<"git checkout ", b>>
cPull(b)     == <<"git pull origin ", b>>
cSwitchC(b)  == <<"git switch -c ", b>>

RECURSIVE LocalLines(_, _)
\* The lines of git branch --list: "* " before the current branch and two
\* blanks before every other.
LocalLines(list, e) ==
  IF Len(list) = 0 THEN <<>>
  ELSE (IF list[1] \in e.local
        THEN (IF list[1] = e.current THEN <<"*", " ">> ELSE <<" ", " ">>)
             \o list[1] \o <<"\n">>
        ELSE <<>>)
       \o LocalLines(Tail(list), e)

BranchListOutput(e) == LocalLines(RemoteOrder, e)

\* git checkout <b> needs a local branch b or a branch origin/<b> to track.
CheckoutOk(e, b) == "checkout" \notin e.fails /\ (b \in e.local \/ b \in e.remote)

\* git pull origin <b> needs the branch b on origin.
PullOk(e, b) == "pull" \notin e.fails /\ b \in e.remote

\* git switch -c <b> needs b not to be a local branch yet.
SwitchCOk(e, b) == "switch" \notin e.fails /\ b \notin e.local

\* A command that ended with process.exit(1) after the commands cmds.
Exit1(error, cmds, e) ==
  [exit |-> TRUE, error |-> error, cmds |-> cmds, env |-> e,
   createdFrom |-> <<>>]

\* The default of the option --from of branch:create, and of the field from
\* of the options of createBranch.
DefaultFrom == sDevelop

\* createBranch; o.hasFrom tells whether the field from is there.
createBranch(e, o) ==
  LET nm         == o.name
      from       == IF o.hasFrom THEN o.from ELSE DefaultFrom
      validation == validateBranchName(nm)
      listed     == <<Cmd(cGitDir, TRUE), Cmd(cBranchList, TRUE),
                      Cmd(cBranchRList, TRUE)>>
      atBase     == CheckoutOk(e, from)
      based      == IF atBase
                    THEN <<Cmd(cCheckout(from), TRUE),
                           Cmd(cPull(from), PullOk(e, from))>>
                    ELSE <<Cmd(cCheckout(from), FALSE)>>
      e1         == IF atBase
                    THEN [e EXCEPT !.current = from,
                                   !.local = e.local \cup {from}]
                    ELSE e
      upTo       == listed \o <<Cmd(cFetch, TRUE)>> \o based
  IN  IF ~validation.valid
      THEN Exit1(<<"Error:">> \o validation.error, <<>>, e)
      ELSE IF "git-dir" \in e.fails
      THEN Exit1(<<"Error:", "Not in a Git repository">>,
                 <<Cmd(cGitDir, FALSE)>>, e)
      ELSE IF "branch-list" \in e.fails
      THEN Exit1(<<"Error creating branch:">>,
                 <<Cmd(cGitDir, TRUE), Cmd(cBranchList, FALSE)>>, e)
      ELSE IF ~BranchROk(e)
      THEN Exit1(<<"Error creating branch:">>,
                 <<Cmd(cGitDir, TRUE), Cmd(cBranchList, TRUE),
                   Cmd(cBranchRList, FALSE)>>, e)
      ELSE IF \/ StringIncludes(BranchListOutput(e), nm)
              \/ StringIncludes(BranchROutput(e), sOrigin \o nm)
      THEN Exit1(<<"Error:", "Branch \"", nm, "\" already exists">>, listed, e)
      ELSE IF ~FetchOk(e)
      THEN Exit1(<<"Error creating branch:">>,
                 listed \o <<Cmd(cFetch, FALSE)>>, e)
      ELSE IF ~SwitchCOk(e1, nm)
      THEN Exit1(<<"Error creating branch:">>,
                 upTo \o <<Cmd(cSwitchC(nm), FALSE)>>, e1)
      ELSE [exit |-> FALSE, error |-> <<>>,
            cmds |-> upTo \o <<Cmd(cSwitchC(nm), TRUE)>>,
            env  |-> [e1 EXCEPT !.current = nm, !.local = e1.local \cup {nm}],
            createdFrom |-> e1.current]

\* The action of branch:create: createBranch({ name, from: options.from }),
\* where commander has put the default of --from into options.from.
BranchCreateCommand(e, o) ==
  createBranch(e, [name |-> o.name, hasFrom |-> TRUE,
                   from |-> IF o.hasFrom THEN o.from ELSE DefaultFrom])

----------------------------------------------------------------------------
(* status: checkPRReadiness and showWorkflowStatus                         *)

cHead         == <<"git rev-parse --abbrev-ref HEAD">>
cStatus       == <<"git status --porcelain">>
cUpstream     == <<"git rev-parse --abbrev-ref --symbolic-full-name @{u}">>
cFetchBranch(b) == <<"git fetch origin ", b>>
cLogAhead(b)  == <<"git log origin/", b, "..HEAD --oneline --no-merges">>

HexChars == {"a", "b", "c", "d", "e", "f"} \cup Digits

\* What git status --porcelain prints: a line per changed file.
StatusOutput(e) ==
  IF e.dirty THEN <<" ", "M", " ", "a", "\n">> ELSE <<>>

RECURSIVE Concat(_)
\* The lines, each followed by a line feed.
Concat(lines) ==
  IF Len(lines) = 0 THEN <<>>
  ELSE lines[1] \o <<"\n">> \o Concat(Tail(lines))

\* What git log <base>..HEAD --oneline prints.
AheadOutput(e) == Concat(e.ahead)

\* line.match(/^[a-f0-9]+\s+(\w+)(\([^)]+\))?:\s+/): a hash, white space, a
\* type, an optional scope, a colon and white space.  The classes that
\* follow each other are disjoint, so the longest runs decide.
TestOnelinePattern(line) ==
  LET a == RunLength(line, 1, HexChars)
      b == RunLength(line, a + 1, WhiteSpace)
      c == RunLength(line, a + b + 1, WordChars)
      p == a + b + c + 1
      n == IF p <= Len(line) /\ line[p] = "("
           THEN RunLengthNot(line, p + 1, ")") ELSE 0
      scoped == /\ p <= Len(line) /\ line[p] = "(" /\ n >= 1
                /\ p + 1 + n <= Len(line) /\ line[p + 1 + n] = ")"
      q == IF scoped THEN p + n + 2 ELSE p
  IN  /\ a >= 1 /\ b >= 1 /\ c >= 1
      /\ q <= Len(line) /\ line[q] = ":"
      /\ RunLength(line, q + 1, WhiteSpace) >= 1

WarnOnBase(b) ==
  <<"You're on ", b, ". Consider creating a feature branch first.">>
IssueUncommitted ==
  <<"You have uncommitted changes. Commit or stash them before creating a PR.">>
InfoDiffers ==
  <<"Branch differs from remote. Make sure to push your changes.">>
WarnNoTracking ==
  <<"No remote tracking branch. Use: git push -u origin <branch>">>
WarnNoCommits ==
  <<"No commits ahead of develop. Make sure you have commits to merge.">>
WarnSomeCommits ==
  <<"Some commits may not follow Conventional Commits format. Consider: git-workflow commit check">>
WarnNoBase == <<"Could not determine commits ahead of base branch">>
WarnBehind ==
  <<"Branch is behind develop. Consider rebasing: git rebase origin/develop">>
IssueChecking == <<"Error checking status: ", "Command failed">>

\* The check of the commit messages: against origin/develop, or against
\* origin/main when the log against origin/develop fails.
CommitCheck(e) ==
  LET commits == AheadOutput(e)
      count   == Len(Split(Trim(commits), "\n"))
      lines   == Split(commits, "\n")
      invalidCommits ==
        SelectSeq(lines, LAMBDA line : ~TestOnelinePattern(line))
  IN  IF "log" \notin e.fails /\ sDevelop \in e.remote
      THEN IF Len(Trim(commits)) = 0
           THEN [info |-> <<>>, warnings |-> <<WarnNoCommits>>]
           ELSE [info |-> << <<"", count, " commit(s) ahead of develop">> >>,
                 warnings |-> IF Len(invalidCommits) > 0
                              THEN <<WarnSomeCommits>> ELSE <<>>]
      ELSE IF "log" \notin e.fails /\ sMain \in e.remote
      THEN [info |-> IF Len(Trim(commits)) > 0
                     THEN << <<"", count, " commit(s) ahead of main">> >>
                     ELSE <<>>,
            warnings |-> <<>>]
      ELSE [info |-> <<>>, warnings |-> <<WarnNoBase>>]

\* The object returned, with the branch not ready as soon as something was
\* found, warnings included.
ReadinessWarningsBlock(ready, issues, warnings, info) ==
  [readyForPR |-> IF Len(issues) > 0 \/ Len(warnings) > 0 THEN FALSE ELSE ready,
   issues |-> issues, warnings |-> warnings, info |-> info]

\* The object returned: ready is what the assignments to status.readyForPR
\* on the path left, and the last statement sets it to false when there are
\* issues.
Readiness(ready, issues, warnings, info) ==
  [readyForPR |-> IF Len(issues) > 0 THEN FALSE ELSE ready,
   issues |-> issues, warnings |-> warnings, info |-> info]

checkPRReadiness(e) ==
  LET infoBranch == << <<"Current branch: ", e.current>> >>
      warnBase   == IF e.current = sMain \/ e.current = sDevelop
                    THEN <<WarnOnBase(e.current)>> ELSE <<>>
      tracked    == e.upstream /\ FetchOk(e)
      commits    == CommitCheck(e)
      behind     == FetchOk(e) /\ sDevelop \in e.remote /\ e.behind
      changed    == Len(Trim(StatusOutput(e))) > 0
  IN  IF "git-dir" \in e.fails
      THEN [readyForPR |-> FALSE,
            issues |-> << <<"Not in a Git repository">> >>,
            warnings |-> <<>>, info |-> <<>>]
      ELSE IF "head" \in e.fails
      THEN Readiness(FALSE, <<IssueChecking>>, <<>>, <<>>)
      ELSE IF "status" \in e.fails
      THEN Readiness(FALSE, <<IssueChecking>>, warnBase, infoBranch)
      ELSE Readiness(
             IF changed THEN FALSE ELSE TRUE,
             IF changed
             THEN <<IssueUncommitted>> ELSE <<>>,
             warnBase
               \o (IF ~tracked THEN <<WarnNoTracking>> ELSE <<>>)
               \o commits.warnings
               \o (IF behind THEN <<WarnBehind>> ELSE <<>>),
             infoBranch
               \o (IF tracked /\ ~e.pushed THEN <<InfoDiffers>> ELSE <<>>)
               \o commits.info)

\* The commands checkPRReadiness ran.
checkPRReadinessCmds(e) ==
  IF "git-dir" \in e.fails THEN <<Cmd(cGitDir, FALSE)>>
  ELSE IF "head" \in e.fails THEN <<Cmd(cGitDir, TRUE), Cmd(cHead, FALSE)>>
  ELSE IF "status" \in e.fails
  THEN <<Cmd(cGitDir, TRUE), Cmd(cHead, TRUE), Cmd(cStatus, FALSE)>>
  ELSE <<Cmd(cGitDir, TRUE), Cmd(cHead, TRUE), Cmd(cStatus, TRUE),
         Cmd(cUpstream, e.upstream)>>
       \o (IF e.upstream
           THEN <<Cmd(cFetchBranch(e.current), FetchOk(e))>> ELSE <<>>)
       \o <<Cmd(cLogAhead(sDevelop),
                "log" \notin e.fails /\ sDevelop \in e.remote)>>
       \o (IF "log" \notin e.fails /\ sDevelop \in e.remote THEN <<>>
           ELSE <<Cmd(cLogAhead(sMain),
                      "log" \notin e.fails /\ sMain \in e.remote)>>)
       \o <<Cmd(cFetchBranch(sDevelop), FetchOk(e) /\ sDevelop \in e.remote)>>

----------------------------------------------------------------------------
(* sync and rebase                                                         *)

cPullRebase(b)   == <<"git pull --rebase origin ", b>>
cRevParseBase(b) == <<"git rev-parse origin/", b>>
cRebase(b)       == <<"git rebase origin/", b>>
cRebaseI(b)      == <<"git rebase -i origin/", b>>

\* isGitRepository()
isGitRepository(e) == "git-dir" \notin e.fails

\* hasUncommittedChanges(): false when git status fails.
hasUncommittedChanges(e) ==
  IF "status" \in e.fails THEN FALSE ELSE Len(Trim(StatusOutput(e))) > 0

\* git rev-parse origin/<b> resolves when origin has the branch b.
RevParseBaseOk(e, b) == "rev-parse" \notin e.fails /\ b \in e.remote

\* The pattern without develop: /^(main|master)$/
IsBaseNameNoDevelop(b) == b = sMain \/ b = sMaster

\* /^(main|master|develop)$/
IsBaseName(b) == b = sMain \/ b = sMaster \/ b = sDevelop

\* A command that ended, with what it printed and the commands it ran.
Ended(exit, printed, cmds) == [exit |-> exit, printed |-> printed, cmds |-> cmds]

ErrNotRepo     == <<"Error:", "Not in a Git repository">>
ErrNoBranch    == <<"Error:", "Could not determine current branch">>
ErrUncommitted ==
  <<"Error:", "You have uncommitted changes. Commit or stash them first.">>

\* The catch around the rebase of rebaseBranch, with the exit left to
\* status 1 as in syncBranch.
RebaseCatchExitsOnConflict(status) == status = 1

\* The catch around the rebase of rebaseBranch: process.exit(1) in the
\* branch of status 1 and in the other.
RebaseCatchExits(status) == IF status = 1 THEN TRUE ELSE TRUE

\* The catch around the rebase of syncBranch with the exit taken for every
\* status, as in rebaseBranch.
SyncCatchExitsAlways(status) == TRUE

\* The catch around the rebase of syncBranch: process.exit(1) for status 1,
\* a warning for any other.
SyncCatchExits(status) == IF status = 1 THEN TRUE ELSE FALSE

\* syncBranch; o.hasBase and o.hasRebase tell whether the fields base and
\* rebase of the options are there.
syncBranch(e, o) ==
  LET detected     == getIntegrationBranch(e)
      baseBranch   == IF o.hasBase /\ Len(o.base) > 0 THEN o.base
                      ELSE detected.value
      shouldRebase == IF o.hasRebase THEN o.rebase ELSE TRUE
      checked      == <<Cmd(cGitDir, TRUE), Cmd(cHead, TRUE)>> \o detected.cmds
                      \o <<Cmd(cStatus, "status" \notin e.fails)>>
      pulled       == IF ~e.upstream THEN <<Cmd(cUpstream, FALSE)>>
                      ELSE <<Cmd(cUpstream, TRUE),
                             Cmd(cPullRebase(e.current), PullOk(e, e.current))>>
      noTracking   == IF e.upstream /\ PullOk(e, e.current) THEN <<>>
                      ELSE << <<"No remote tracking branch set for ", e.current>> >>
      fetched      == checked \o <<Cmd(cFetch, TRUE)>> \o pulled
  IN  IF ~isGitRepository(e)
      THEN Ended(TRUE, <<ErrNotRepo>>, <<Cmd(cGitDir, FALSE)>>)
      ELSE IF "head" \in e.fails \/ Len(Trim(e.current)) = 0
      THEN Ended(TRUE, <<ErrNoBranch>>,
                 <<Cmd(cGitDir, TRUE), Cmd(cHead, "head" \notin e.fails)>>)
      ELSE IF hasUncommittedChanges(e)
      THEN Ended(TRUE, <<ErrUncommitted>>, checked)
      ELSE IF ~FetchOk(e)
      THEN Ended(TRUE, << <<"Error during sync:">> >>,
                 checked \o <<Cmd(cFetch, FALSE)>>)
      ELSE IF ~(shouldRebase /\ e.current # baseBranch /\ ~IsBaseName(e.current))
      THEN Ended(FALSE,
                 noTracking \o << <<"Successfully synced ", e.current>> >>,
                 fetched)
      ELSE IF ~RevParseBaseOk(e, baseBranch)
      THEN Ended(FALSE,
                 noTracking \o << <<"Warning: Could not rebase onto ", baseBranch>> >>,
                 fetched \o <<Cmd(cRevParseBase(baseBranch), FALSE)>>)
      ELSE LET ran == fetched \o <<Cmd(cRevParseBase(baseBranch), TRUE),
                                  Cmd(cRebase(baseBranch), e.rebaseStatus = 0)>>
           IN  IF e.rebaseStatus = 0
               THEN Ended(FALSE,
                          noTracking \o
                            << <<"Successfully synced and rebased ", e.current>> >>,
                          ran)
               ELSE Ended(SyncCatchExits(e.rebaseStatus),
                          noTracking \o
                            (IF e.rebaseStatus = 1
                             THEN << <<"Rebase encountered conflicts.">> >>
                             ELSE << <<"Warning: Could not rebase onto ",
                                       baseBranch>> >>),
                          ran)

\* What commander makes of --no-rebase declared with the default false:
\* options.rebase is false when the flag is passed; without the flag it is
\* the declared default, false, where commander takes the default of a
\* negated option as given (o.defaultHonoured), and true where it does not.
SyncOptionRebase(o) ==
  IF o.noRebase THEN FALSE
  ELSE IF o.defaultHonoured THEN FALSE ELSE TRUE

\* The action of sync: syncBranch(options).
SyncCommand(e, o) ==
  syncBranch(e, [hasBase |-> o.hasBase, base |-> o.base,
                 hasRebase |-> TRUE, rebase |-> SyncOptionRebase(o)])

\* rebaseBranch; { base, interactive = false } = { base: detectedBranch,
\* ...options }.
rebaseBranch(e, o) ==
  LET detected == getIntegrationBranch(e)
      base     == IF o.hasBase THEN o.base ELSE detected.value
      rebaseCommand == IF o.interactive THEN cRebaseI(base) ELSE cRebase(base)
      checked  == <<Cmd(cGitDir, TRUE)>> \o detected.cmds
                  \o <<Cmd(cGitDir, TRUE)>>
      clean    == checked \o <<Cmd(cHead, TRUE),
                                Cmd(cStatus, "status" \notin e.fails)>>
      fetchOk  == FetchOk(e) /\ base \in e.remote
  IN  IF ~isGitRepository(e)
      THEN Ended(TRUE, <<ErrNotRepo>>, <<Cmd(cGitDir, FALSE)>>)
      ELSE IF "head" \in e.fails
      THEN Ended(TRUE, << <<"Error during rebase:">> >>,
                 checked \o <<Cmd(cHead, FALSE)>>)
      ELSE IF hasUncommittedChanges(e)
      THEN Ended(TRUE, <<ErrUncommitted>>, clean)
      ELSE IF ~fetchOk
      THEN Ended(TRUE, << <<"Error during rebase:">> >>,
                 clean \o <<Cmd(cFetchBranch(base), FALSE)>>)
      ELSE IF ~RevParseBaseOk(e, base)
      THEN Ended(TRUE,
                 << <<"Error: Remote branch origin/", base, " not found">> >>,
                 clean \o <<Cmd(cFetchBranch(base), TRUE),
                            Cmd(cRevParseBase(base), FALSE)>>)
      ELSE LET ran == clean \o <<Cmd(cFetchBranch(base), TRUE),
                                Cmd(cRevParseBase(base), TRUE),
                                Cmd(rebaseCommand, e.rebaseStatus = 0)>>
           IN  IF e.rebaseStatus = 0
               THEN Ended(FALSE,
                          << <<"Successfully rebased ", e.current,
                               " onto origin/", base>> >>, ran)
               ELSE Ended(RebaseCatchExits(e.rebaseStatus),
                          IF e.rebaseStatus = 1
                          THEN << <<"Rebase encountered issues.">> >>
                          ELSE << <<"Error during rebase:">> >>,
                          ran)

\* The action of rebase: rebaseBranch(options), where commander leaves base
\* out when --base is not passed.
RebaseCommand(e, o) ==
  rebaseBranch(e, [hasBase |-> o.hasBase, base |-> o.base,
                   interactive |-> o.interactive])

----------------------------------------------------------------------------
(* commit:validate and commit:check.  A command ends by returning or by    *)
(* process.exit(1); what it printed is a list of lines.                    *)

cLogLast == <<"git log -1 --pretty=%B">>

\* The lines that list the warnings, if there are any.
WarningLines(validation) ==
  IF Len(validation.warnings) > 0
  THEN << <<"Warnings:">> >> \o validation.warnings
  ELSE <<>>

\* The report with the exit taken whenever something was found, warnings
\* included.
ReportStrict(validation) ==
  IF validation.valid /\ Len(validation.warnings) = 0
  THEN [printed |-> << <<"Commit message is valid">> >>, exit |-> FALSE]
  ELSE [printed |-> << <<"Commit message validation failed:">> >>
                    \o validation.errors \o WarningLines(validation),
        exit |-> TRUE]

\* The report both commands print for a validation, and whether they exit:
\* if (validation.valid) { ... } else { ...; process.exit(1) }.
Report(validation) ==
  IF validation.valid
  THEN [printed |-> << <<"Commit message is valid">> >>
                    \o WarningLines(validation),
        exit |-> FALSE]
  ELSE [printed |-> << <<"Commit message validation failed:">> >>
                    \o validation.errors \o WarningLines(validation),
        exit |-> TRUE]

validateStagedCommit(msg) ==
  LET r == Report(validateCommitMessage(msg))
  IN  [printed |-> r.printed, exit |-> r.exit, cmds |-> <<>>]

\* lastMessage is the message of the last commit; git log prints it with a
\* line feed after it.
validateLastCommit(e, lastMessage) ==
  IF "git-dir" \in e.fails
  THEN [printed |-> << <<"Error:", "Not in a Git repository">> >>,
        exit |-> TRUE, cmds |-> <<Cmd(cGitDir, FALSE)>>]
  ELSE IF "log" \in e.fails
  THEN [printed |-> << <<"Error:", "Could not read last commit">> >>,
        exit |-> TRUE,
        cmds |-> <<Cmd(cGitDir, TRUE), Cmd(cLogLast, FALSE)>>]
  ELSE LET logged == lastMessage \o <<"\n">>
           r      == Report(validateCommitMessage(logged))
       IN  [printed |-> << <<"Last Commit Message:">>,
                           <<"", Trim(logged)>>, <<"">> >> \o r.printed,
            exit |-> r.exit,
            cmds |-> <<Cmd(cGitDir, TRUE), Cmd(cLogLast, TRUE)>>]

----------------------------------------------------------------------------
(* branch:status and pr: showBranchStatus and preparePR.                   *)

cRevListAhead(t)  == <<"git rev-list --count ", t, "..HEAD">>
cRevListBehind(t) == <<"git rev-list --count HEAD..", t>>

\* What git rev-parse --abbrev-ref --symbolic-full-name @{u} prints.
TrackingOutput(e) == sOrigin \o e.current \o <<"\n">>

\* What git rev-list --count <tracking>..HEAD prints: the commits that are
\* not pushed yet.
AheadCount(e) == IF e.pushed THEN <<"0", "\n">> ELSE <<"1", "\n">>

\* What git rev-list --count HEAD..<tracking> prints.
BehindCount(e) == <<"0", "\n">>

\* showBranchStatus: the inner catch takes the failure of the commands about
\* the tracking branch, the outer one exits with code 1.
showBranchStatus(e) ==
  LET currentBranch == Trim(e.current)
      validation    == validateBranchName(currentBranch)
      tracking      == Trim(TrackingOutput(e))
      ahead         == Trim(AheadCount(e))
      behind        == Trim(BehindCount(e))
      nameLines     ==
        << <<"Current Branch:", currentBranch>>,
           IF ~validation.valid /\ currentBranch \notin {sMain, sDevelop}
           THEN <<"Warning:">> \o validation.error
           ELSE <<"Branch name follows convention">> >>
  IN  IF "head" \in e.fails
      THEN Ended(TRUE, <<ErrNotRepo>>, <<Cmd(cHead, FALSE)>>)
      ELSE IF ~e.upstream
      THEN Ended(FALSE, nameLines \o << <<"No remote tracking branch set">> >>,
                 <<Cmd(cHead, TRUE), Cmd(cUpstream, FALSE)>>)
      ELSE IF "rev-list" \in e.fails
      THEN Ended(FALSE, nameLines \o << <<"No remote tracking branch set">> >>,
                 <<Cmd(cHead, TRUE), Cmd(cUpstream, TRUE),
                   Cmd(cRevListAhead(tracking), FALSE)>>)
      ELSE Ended(FALSE,
                 nameLines
                   \o (IF ahead # <<"0">>
                       THEN << <<"", ahead, " commit(s) ahead of ", tracking>> >>
                       ELSE <<>>)
                   \o (IF behind # <<"0">>
                       THEN << <<"", behind, " commit(s) behind ", tracking>> >>
                       ELSE <<>>)
                   \o (IF ahead = <<"0">> /\ behind = <<"0">>
                       THEN << <<"Branch is up to date">> >> ELSE <<>>),
                 <<Cmd(cHead, TRUE), Cmd(cUpstream, TRUE),
                   Cmd(cRevListAhead(tracking), TRUE),
                   Cmd(cRevListBehind(tracking), TRUE)>>)

StepOne   == <<"1 Checking branch status...">>
StepTwo   == <<"2 Validating commit messages...">>
StepThree == <<"3 Checking PR readiness...">>
Summary   == <<"Summary">>

VerdictNotReady == <<"Branch is NOT ready for Pull Request">>
VerdictWarnings == <<"Branch is ready, but has warnings">>
VerdictReady    == <<"Branch is ready for Pull Request!">>

\* The final verdict with the exit taken for warnings too.
VerdictWarningsFatal(hasErrors, hasWarnings) ==
  IF hasErrors \/ hasWarnings
  THEN [printed |-> <<Summary, VerdictNotReady>>, exit |-> TRUE]
  ELSE [printed |-> <<Summary, VerdictReady>>, exit |-> FALSE]

\* The final verdict of preparePR: process.exit(1) in the branch of
\* hasErrors only.
Verdict(hasErrors, hasWarnings) ==
  IF hasErrors
  THEN [printed |-> <<Summary, VerdictNotReady>>, exit |-> TRUE]
  ELSE IF hasWarnings
  THEN [printed |-> <<Summary, VerdictWarnings>>, exit |-> FALSE]
  ELSE [printed |-> <<Summary, VerdictReady>>, exit |-> FALSE]

\* The lines preparePR prints for the status of checkPRReadiness.
StatusLines(status) ==
  (IF Len(status.info) > 0 THEN status.info \o << <<"">> >> ELSE <<>>)
  \o (IF Len(status.issues) > 0 THEN status.issues \o << <<"">> >> ELSE <<>>)
  \o (IF Len(status.warnings) > 0 THEN status.warnings \o << <<"">> >> ELSE <<>>)

\* The body of preparePR, given what its three steps do: branch is the run
\* of showBranchStatus, commit that of validateLastCommit, status what
\* checkPRReadiness returns and statusCmds the commands it runs.
\* showBranchStatus and validateLastCommit end the process themselves with
\* process.exit(1), which is no exception: the catch blocks of preparePR are
\* not entered, and nothing after the call runs.
preparePRSteps(e, branch, commit, status, statusCmds) ==
  LET currentBranch == Trim(e.current)
      verdict == Verdict(Len(status.issues) > 0, Len(status.warnings) > 0)
      started == <<Cmd(cGitDir, TRUE), Cmd(cHead, TRUE)>>
      one     == << <<"Preparing Pull Request Checklist">>,
                    <<"Branch: ", currentBranch>>, StepOne >>
                 \o branch.printed
      two     == one \o << <<"">>, StepTwo >> \o commit.printed
      three   == two \o << <<"">>, StepThree >> \o StatusLines(status)
  IN  IF ~isGitRepository(e)
      THEN Ended(TRUE, <<ErrNotRepo>>, <<Cmd(cGitDir, FALSE)>>)
      ELSE IF "head" \in e.fails \/ Len(currentBranch) = 0
      THEN Ended(TRUE, <<ErrNoBranch>>,
                 <<Cmd(cGitDir, TRUE), Cmd(cHead, "head" \notin e.fails)>>)
      ELSE IF branch.exit
      THEN Ended(TRUE, one, started \o branch.cmds)
      ELSE IF commit.exit
      THEN Ended(TRUE, two, started \o branch.cmds \o commit.cmds)
      ELSE Ended(verdict.exit, three \o verdict.printed,
                 started \o branch.cmds \o commit.cmds \o statusCmds)

\* preparePR in a repository whose last commit has the message lastMessage.
preparePR(e, lastMessage) ==
  preparePRSteps(e, showBranchStatus(e), validateLastCommit(e, lastMessage),
                 checkPRReadiness(e), checkPRReadinessCmds(e))

----------------------------------------------------------------------------
(* The messages the validator is called with.                              *)

\* The longest of the messages that are enumerated character by character.
MaxLen == 4

ShortAlphabet == {"a", ":", " ", "\n", "(", ")"}

\* Every string over ShortAlphabet of at most MaxLen characters.
ShortMessages == UNION {[1..n -> ShortAlphabet] : n \in 0..MaxLen}

Filler(n) == [i \in 1..n |-> "x"]

\* s, lengthened with filler to n characters when it is shorter.
PadTo(s, n) == IF Len(s) < n THEN s \o Filler(n - Len(s)) ELSE s

Leads == {<<>>, <<" ", "\n">>}

Types ==
  {<<>>, <<"f","e","a","t">>, <<"f","o","o">>, <<"F","e","a","t">>,
   <<"a","-","b">>}

Scopes == {<<>>, <<"(","a","u","t","h",")">>, <<"(",")">>}

Bangs == {<<>>, <<"!">>}

Seps == {<<":"," ">>, <<":">>, <<":","\t">>}

Subjects ==
  {<<>>, <<" ">>, <<"a","d","d"," ","x">>,
   <<"a","d","d","e","d"," ","l","o","g","i","n">>,
   <<"a","d","d"," ","l","o","g","i","n"," ",
     "f","u","n","c","t","i","o","n","a","l","i","t","y">>,
   <<"F","i","x"," ","y">>, <<"l","o","g","i","n">>}

\* What is lengthened, and to which length, around the limits of the checks:
\* nothing, the subject, or the whole header.
Fills ==
  {<<"none", 0>>,
   <<"subject", SubjectMax>>, <<"subject", SubjectMax + 1>>,
   <<"header", HeaderMax>>, <<"header", HeaderMax + 1>>}

ShortTails ==
  {<<>>, <<"\n","\n","b">>, <<"\r","\n","b">>, <<"\n","b","\n","c">>}

LongTails == {<<"\n">> \o Filler(BodyMax), <<"\n">> \o Filler(BodyMax + 1)}

Compose(lead, type, scope, bang, sep, subject, fill, tail) ==
  LET subj   == IF fill[1] = "subject" THEN PadTo(subject, fill[2])
                ELSE subject
      header == type \o scope \o bang \o sep \o subj
  IN  lead \o (IF fill[1] = "header" THEN PadTo(header, fill[2]) ELSE header)
           \o tail

ComposedMessages ==
  {Compose(c[1], c[2], c[3], c[4], c[5], c[6], c[7], c[8]) :
     c \in {d \in Leads \X Types \X Scopes \X Bangs \X Seps \X Subjects
                    \X Fills \X (ShortTails \cup LongTails) :
              /\ d[1] # <<>> => d[7][1] = "none" /\ d[8] \in ShortTails
              /\ d[8] \in LongTails =>
                   d[7] \in {<<"none", 0>>, <<"header", HeaderMax + 1>>}}}

\* Messages of white space only, longer than the limits of the checks.
BlankMessages ==
  {[i \in 1..(HeaderMax + 1) |-> " "],
   <<" ", "\n">> \o [i \in 1..(BodyMax + 1) |-> " "] \o <<"\n">>}

Messages == ShortMessages \cup ComposedMessages \cup BlankMessages

----------------------------------------------------------------------------
(* The state machine: a message is given, and validateCommitMessage is     *)
(* called with it.                                                         *)

NoResult == [valid |-> FALSE, errors |-> <<>>, warnings |-> <<>>]

\* A repository outside of which the commands above run: no remote branch,
\* no origin/HEAD, no failing command.
DefaultEnv ==
  [remote |-> {}, head |-> NoHead, local |-> {}, current |-> <<>>,
   dirty |-> FALSE, upstream |-> FALSE, pushed |-> FALSE, ahead |-> <<>>,
   behind |-> FALSE, rebaseStatus |-> 0, fails |-> {}]

\* No git command is run.
NoGit == env = DefaultEnv /\ opts = <<>> /\ trace = <<>> /\ ret = <<>>

\* No call of validateBranchName is made.
NoBranchCall == name = <<>> /\ branchResult = [valid |-> FALSE]

\* No call of validateCommitMessage is made.
NoCommitCall == message = <<>> /\ result = NoResult

Init ==
  /\ message \in Messages
  /\ result = NoResult
  /\ pc = "input"
  /\ outcome = "pending"
  /\ NoBranchCall
  /\ NoGit

Validate ==
  /\ pc = "input"
  /\ outcome' = IF validateCommitMessageThrows(message)
                THEN "threw" ELSE "returned"
  /\ result' = IF validateCommitMessageThrows(message)
               THEN result ELSE validateCommitMessage(message)
  /\ pc' = "done"
  /\ UNCHANGED <<message, name, branchResult, env, opts, trace, ret>>

Next == Validate

SpecCommit == Init /\ [][Next]_vars

----------------------------------------------------------------------------
(* The two validators side by side: either a message is given and          *)
(* validateCommitMessage is called with it, or a branch name is given and  *)
(* validateBranchName is called with it.                                   *)

\* The longest of the slugs that are enumerated character by character.
MaxSlugLen == 3

SlugAlphabet == {"a", "9", "-", "A", "/", "_"}

Slugs == UNION {[1..n -> SlugAlphabet] : n \in 0..MaxSlugLen}

NamePrefixes ==
  {<<>>, sFeature, sBugfix, sHotfix, sRelease, sMain, sDevelop, sMaster,
   <<"F","e","a","t","u","r","e","/">>, <<"f","e","a","t","/">>,
   <<"x">> \o sFeature, <<"f","e","a","t","u","r","e">>}

BranchNames == {p \o s : p \in NamePrefixes, s \in Slugs}

InitBranch ==
  /\ name \in BranchNames
  /\ branchResult = [valid |-> FALSE]
  /\ pc = "branch"
  /\ outcome = "pending"
  /\ NoCommitCall
  /\ NoGit

\* validateBranchName has no statement that can throw: pattern.test on its
\* string argument, and a template string.
ValidateBranch ==
  /\ pc = "branch"
  /\ branchResult' = validateBranchName(name)
  /\ outcome' = "returned"
  /\ pc' = "branchDone"
  /\ UNCHANGED <<message, result, name, env, opts, trace, ret>>

InitValidators == Init \/ InitBranch

NextValidators == Validate \/ ValidateBranch

SpecValidators == InitValidators /\ [][NextValidators]_vars

----------------------------------------------------------------------------
(* The two commit commands: commit:validate is called with a message, or   *)
(* commit:check in a repository whose last commit has that message.        *)

CliMessages ==
  ShortMessages
  \cup {Compose(<<>>, t, sc, <<>>, <<":", " ">>, sj, <<"none", 0>>, tl) :
          t \in Types, sc \in Scopes, sj \in Subjects, tl \in ShortTails}
  \cup {Compose(<<>>, <<"f","e","a","t">>, <<>>, <<>>, <<":", " ">>,
                <<"a","d","d"," ","x">>, <<"none", 0>>, tl) : tl \in LongTails}

InitCommitCli ==
  /\ message \in CliMessages
  /\ result = NoResult
  /\ env \in {[DefaultEnv EXCEPT !.fails = f] : f \in SUBSET {"git-dir", "log"}}
  /\ opts = <<>> /\ trace = <<>> /\ ret = <<>>
  /\ pc = "cli"
  /\ outcome = "pending"
  /\ NoBranchCall

ValidateStagedCommit ==
  /\ pc = "cli"
  /\ LET r == validateStagedCommit(message)
     IN  /\ ret' = r.printed
         /\ trace' = r.cmds
         /\ outcome' = IF r.exit THEN "exit1" ELSE "returned"
  /\ pc' = "stagedDone"
  /\ UNCHANGED <<message, result, name, branchResult, env, opts>>

ValidateLastCommit ==
  /\ pc = "cli"
  /\ LET r == validateLastCommit(env, message)
     IN  /\ ret' = r.printed
         /\ trace' = r.cmds
         /\ outcome' = IF r.exit THEN "exit1" ELSE "returned"
  /\ pc' = "lastDone"
  /\ UNCHANGED <<message, result, name, branchResult, env, opts>>

NextCommitCli == ValidateStagedCommit \/ ValidateLastCommit

SpecCommitCli == InitCommitCli /\ [][NextCommitCli]_vars

----------------------------------------------------------------------------
(* branch:create: a repository, a name and perhaps --from are given, and   *)
(* the command is run.                                                     *)

\* How many kinds of git command fail in one run, at most.
MaxFailures == 1

FailureSets(kinds) == {f \in SUBSET kinds : Cardinality(f) <= MaxFailures}

CreateKinds ==
  {"git-dir", "branch-list", "branch-r", "fetch", "checkout", "pull", "switch"}

CreatePool == {sDevelop, sMain, sFeatureAddLogging}

CreateNames ==
  {sFeatureAdd, sFeatureAddLogging, sDevelop, sFeature \o <<"A">>}

CreateEnvs ==
  {[DefaultEnv EXCEPT !.remote = r, !.local = l, !.current = c, !.fails = f] :
     r \in SUBSET CreatePool, l \in SUBSET CreatePool, c \in CreatePool,
     f \in FailureSets(CreateKinds)}

CreateOptions ==
  {[name |-> n, hasFrom |-> FALSE, from |-> <<>>] : n \in CreateNames}
  \cup {[name |-> n, hasFrom |-> TRUE, from |-> b] :
          n \in CreateNames, b \in {sMain, sTrunk}}

InitCreate ==
  /\ env \in {e \in CreateEnvs : e.current \in e.local}
  /\ opts \in CreateOptions
  /\ trace = <<>> /\ ret = <<>>
  /\ pc = "create"
  /\ outcome = "pending"
  /\ NoCommitCall /\ NoBranchCall

BranchCreate ==
  /\ pc = "create"
  /\ LET r == BranchCreateCommand(env, opts)
     IN  /\ env' = r.env
         /\ trace' = r.cmds
         /\ ret' = [error |-> r.error, createdFrom |-> r.createdFrom,
                    before |-> env]
         /\ outcome' = IF r.exit THEN "exit1" ELSE "returned"
  /\ pc' = "createDone"
  /\ UNCHANGED <<message, result, name, branchResult, opts>>

NextCreate == BranchCreate

SpecCreate == InitCreate /\ [][NextCreate]_vars

----------------------------------------------------------------------------
(* status: a repository is given, and the command is run in it.            *)

sMyBranch == <<"m","y","-","b","r","a","n","c","h">>

oneFeat   == <<"a","1","b","2","c","3","d"," ","f","e","a","t",":"," ","x">>
oneScoped == <<"0","f"," ","f","i","x","(","u","i",")",":"," ","y">>
oneBang   == <<"b","2","c","3","d","4","e"," ","f","e","a","t","!",":"," ","z">>
onePlain  == <<"c","3","d","4","e","5","f"," ","u","p","d","a","t","e">>

AheadLists ==
  {<<>>, <<oneFeat>>, <<oneFeat, oneScoped>>, <<oneBang>>, <<oneFeat, onePlain>>}

StatusKinds == {"git-dir", "head", "status", "fetch", "log"}

StatusEnvs ==
  {[DefaultEnv EXCEPT !.current = c, !.remote = r, !.dirty = d,
                      !.upstream = u[1], !.pushed = u[2], !.ahead = a,
                      !.behind = b, !.fails = f] :
     c \in {sMain, sDevelop, sMaster, sFeatureAdd, sMyBranch},
     r \in SUBSET {sMain, sDevelop}, d \in BOOLEAN,
     u \in {<<FALSE, FALSE>>, <<TRUE, FALSE>>, <<TRUE, TRUE>>},
     a \in AheadLists, b \in BOOLEAN, f \in FailureSets(StatusKinds)}

InitStatus ==
  /\ env \in {e \in StatusEnvs : e.behind => sDevelop \in e.remote}
  /\ opts = <<>> /\ trace = <<>> /\ ret = <<>>
  /\ pc = "status"
  /\ outcome = "pending"
  /\ NoCommitCall /\ NoBranchCall

\* showWorkflowStatus prints what checkPRReadiness returned, and returns.
ShowWorkflowStatus ==
  /\ pc = "status"
  /\ ret' = checkPRReadiness(env)
  /\ trace' = checkPRReadinessCmds(env)
  /\ outcome' = "returned"
  /\ pc' = "statusDone"
  /\ UNCHANGED <<message, result, name, branchResult, env, opts>>

NextStatus == ShowWorkflowStatus

SpecStatus == InitStatus /\ [][NextStatus]_vars

----------------------------------------------------------------------------
(* pr: a repository and the message of its last commit are given, and the  *)
(* command is run.                                                         *)

msgClean   == <<"f","e","a","t",":"," ","a","d","d"," ","x">>
msgWarned  == <<"f","o","o",":"," ","a","d","d"," ","x">>
msgBang    == <<"f","i","x","(","u","i",")","!",":"," ","d","r","o","p"," ","y">>
msgInvalid == <<"u","p","d","a","t","e"," ","x">>

PRMessages == {msgClean, msgWarned, msgBang, msgInvalid, <<>>}

PRKinds == {"git-dir", "head", "status", "fetch", "log", "rev-list"}

PREnvs ==
  {[DefaultEnv EXCEPT !.current = c, !.remote = r, !.dirty = d,
                      !.upstream = u[1], !.pushed = u[2], !.ahead = a,
                      !.behind = b, !.fails = f] :
     c \in {sMain, sFeatureAdd, sMyBranch},
     r \in SUBSET {sMain, sDevelop}, d \in BOOLEAN,
     u \in {<<FALSE, FALSE>>, <<TRUE, FALSE>>, <<TRUE, TRUE>>},
     a \in {<<>>, <<oneFeat>>, <<oneFeat, onePlain>>}, b \in BOOLEAN,
     f \in FailureSets(PRKinds)}

InitPR ==
  /\ message \in PRMessages
  /\ result = NoResult
  /\ env \in {e \in PREnvs : e.behind => sDevelop \in e.remote}
  /\ opts = <<>> /\ trace = <<>> /\ ret = <<>>
  /\ pc = "pr"
  /\ outcome = "pending"
  /\ NoBranchCall

PreparePR ==
  /\ pc = "pr"
  /\ LET r == preparePR(env, message)
     IN  /\ ret' = r.printed
         /\ trace' = r.cmds
         /\ outcome' = IF r.exit THEN "exit1" ELSE "returned"
  /\ pc' = "prDone"
  /\ UNCHANGED <<message, result, name, branchResult, env, opts>>

NextPR == PreparePR

SpecPR == InitPR /\ [][NextPR]_vars

----------------------------------------------------------------------------
(* sync and rebase: a repository and the options of the command line are   *)
(* given, and one of the two commands is run.                              *)

SyncKinds ==
  {"git-dir", "head", "status", "fetch", "branch-r", "symbolic-ref", "pull",
   "rev-parse"}

\* A clone: origin/HEAD points to main where origin has it, and a branch
\* with an upstream is on origin.
SyncEnvs ==
  {[DefaultEnv EXCEPT
      !.current = c,
      !.remote = r \cup (IF u THEN {c} ELSE {}),
      !.head = IF sMain \in r THEN sMain ELSE NoHead,
      !.dirty = d, !.upstream = u, !.rebaseStatus = rs, !.fails = f] :
     c \in {sMain, sDevelop, sFeatureAdd}, r \in SUBSET {sMain, sDevelop},
     d \in BOOLEAN, u \in BOOLEAN, rs \in {0, 1, 128},
     f \in FailureSets(SyncKinds)}

SyncOptions ==
  {[command |-> "sync", hasBase |-> b # <<>>, base |-> b, noRebase |-> n,
    defaultHonoured |-> h, interactive |-> FALSE] :
     b \in {<<>>, sMain}, n \in BOOLEAN, h \in BOOLEAN}

RebaseOptions ==
  {[command |-> "rebase", hasBase |-> b # <<>>, base |-> b,
    noRebase |-> FALSE, defaultHonoured |-> FALSE, interactive |-> i] :
     b \in {<<>>, sMain}, i \in BOOLEAN}

InitSync ==
  /\ env \in SyncEnvs
  /\ opts \in SyncOptions \cup RebaseOptions
  /\ trace = <<>> /\ ret = <<>>
  /\ pc = "sync"
  /\ outcome = "pending"
  /\ NoCommitCall /\ NoBranchCall

Sync ==
  /\ pc = "sync" /\ opts.command = "sync"
  /\ LET r == SyncCommand(env, opts)
     IN  /\ ret' = r.printed
         /\ trace' = r.cmds
         /\ outcome' = IF r.exit THEN "exit1" ELSE "returned"
  /\ pc' = "syncDone"
  /\ UNCHANGED <<message, result, name, branchResult, env, opts>>

Rebase ==
  /\ pc = "sync" /\ opts.command = "rebase"
  /\ LET r == RebaseCommand(env, opts)
     IN  /\ ret' = r.printed
         /\ trace' = r.cmds
         /\ outcome' = IF r.exit THEN "exit1" ELSE "returned"
  /\ pc' = "rebaseDone"
  /\ UNCHANGED <<message, result, name, branchResult, env, opts>>

NextSync == Sync \/ Rebase

SpecSync == InitSync /\ [][NextSync]_vars

----------------------------------------------------------------------------
(* The detection of the integration branch: a repository is given, and     *)
(* getIntegrationBranch is called in it.                                   *)

RemotePool == {sDevelop, sDevelopment, sMain, sMaster, sTrunk}

QueryKinds == {"fetch", "branch-r", "symbolic-ref"}

\* The repositories: origin/HEAD, when set, points to a branch of origin.
IntegrationEnvs ==
  {[DefaultEnv EXCEPT !.remote = r, !.head = h, !.fails = f] :
     r \in SUBSET RemotePool, h \in RemotePool \cup {NoHead},
     f \in SUBSET QueryKinds}

InitIntegration ==
  /\ env \in {e \in IntegrationEnvs : e.head = NoHead \/ e.head \in e.remote}
  /\ opts = <<>> /\ trace = <<>> /\ ret = <<>>
  /\ pc = "integration"
  /\ outcome = "pending"
  /\ NoCommitCall /\ NoBranchCall

GetIntegrationBranch ==
  /\ pc = "integration"
  /\ ret' = getIntegrationBranch(env).value
  /\ trace' = getIntegrationBranch(env).cmds
  /\ outcome' = "returned"
  /\ pc' = "integrationDone"
  /\ UNCHANGED <<message, result, name, branchResult, env, opts>>

NextIntegration == GetIntegrationBranch

SpecIntegration == InitIntegration /\ [][NextIntegration]_vars

----------------------------------------------------------------------------
(* What the properties speak of, stated without the matcher: the header    *)
(* and the body of a message, and the shape of a header.                   *)

Done == pc = "done"

NonEmpty(msg) == \E i \in 1..Len(msg) : msg[i] \notin WhiteSpace

\* The first line of the trimmed message.
HeaderOf(msg) ==
  LET t == Trim(msg) IN SubSeq(t, 1, RunLengthNot(t, 1, "\n"))

\* What follows the first line break of the trimmed message.
BodyOf(msg) ==
  LET t == Trim(msg) IN SubSeq(t, RunLengthNot(t, 1, "\n") + 2, Len(t))

Has(list, x) == \E k \in 1..Len(list) : list[k] = x

AllIn(h, from, to, cls) == \A i \in from..to : h[i] \in cls

\* h[a+1..b] is a parenthesized scope: "(", one or more characters other
\* than ")", then ")".
IsScope(h, a, b) ==
  /\ b >= a + 3 /\ b <= Len(h)
  /\ h[a + 1] = "(" /\ h[b] = ")"
  /\ \A i \in (a + 2)..(b - 1) : h[i] # ")"

\* The header reads: a type of one or more word characters (minType = 1; with
\* minType = 0 the type may be missing), an optional scope, an optional "!",
\* a colon, one or more characters of seps, and then a rest that starts at
\* an index Q accepts.
ShapeWith(h, minType, seps, Q(_)) ==
  \E a \in minType..Len(h) :
    /\ a + 1 <= Len(h) /\ h[a + 1] \in {"(", "!", ":"}
    /\ AllIn(h, 1, a, WordChars)
    /\ \E b \in a..Len(h) :
         /\ b = a \/ IsScope(h, a, b)
         /\ \E c \in {b, b + 1} :
              /\ c = b + 1 => (c <= Len(h) /\ h[c] = "!")
              /\ c + 1 <= Len(h) /\ h[c + 1] = ":"
              /\ \E d \in (c + 2)..Len(h) :
                   /\ AllIn(h, c + 2, d, seps)
                   /\ Q(d + 1)

\* The rest of h from index s on is one or more characters that "." matches.
IsSubject(h, s) == s <= Len(h) /\ \A i \in s..Len(h) : h[i] \notin LineTerminators

\* <type>(<scope>)!: <subject>, the type mandatory, the separator a colon
\* and white space of any kind.
HasShape(h) == ShapeWith(h, 1, WhiteSpace, LAMBDA s : IsSubject(h, s))

\* The shape with nothing after the separator ": ": an empty subject.
HasEmptySubject(h) == ShapeWith(h, 1, {" "}, LAMBDA s : s = Len(h) + 1)

\* The index at which the subject starts: after the colon and all the white
\* space that follows it, as long as a subject is left.
SubjectStart(h) ==
  CHOOSE s \in 1..Len(h) :
    /\ ShapeWith(h, 1, WhiteSpace, LAMBDA t : t = s /\ IsSubject(h, t))
    /\ \A u \in (s + 1)..Len(h) :
         ~ShapeWith(h, 1, WhiteSpace, LAMBDA t : t = u /\ IsSubject(h, t))

SubjectOf(h) == SubSeq(h, SubjectStart(h), Len(h))

\* The type of a header that has the shape: its leading word characters.
TypeOf(h) == SubSeq(h, 1, RunLength(h, 1, WordChars))

IsHeaderLengthWarning(w) ==
  Len(w) = 3 /\ w[1] = "Header should be 50 characters or less (currently "

IsTypeWarning(w) == Len(w) = 4 /\ w[1] = "Type \""

\* The header as the specification words it: the type may be missing, and the
\* separator is a colon and a blank.
HasSpecShape(h) == ShapeWith(h, 0, {" "}, LAMBDA s : IsSubject(h, s))

\* The text from index s of h on begins, whatever the case of its letters,
\* with one of the verbs.
BeginsWithVerb(h, s) ==
  \E k \in 1..Len(imperativeVerbs) :
     LET v == imperativeVerbs[k]
     IN  /\ s + Len(v) - 1 <= Len(h)
         /\ \A i \in 1..Len(v) : ToLower(h[s + i - 1]) = v[i]

PastTense(v) == IF v[Len(v)] = "e" THEN v \o <<"d">> ELSE v \o <<"e", "d">>

\* The subject of h begins with the past tense of one of the verbs.
BeginsWithPastTense(h) ==
  \E k \in 1..Len(imperativeVerbs) :
     LET v == PastTense(imperativeVerbs[k])
         s == SubjectStart(h)
     IN  /\ s + Len(v) - 1 <= Len(h)
         /\ SubSeq(h, s, s + Len(v) - 1) = v

----------------------------------------------------------------------------
(* The properties.                                                         *)

\* C1: for every message, the result is valid exactly when its errors are
\* empty, whatever its warnings are.
C1_ValidIffNoErrors ==
  Done => (result.valid <=> Len(result.errors) = 0)

\* A valid result that carries several warnings.
C1_Witness ==
  Done /\ result.valid /\ Len(result.warnings) >= 2

\* C2: a message that is empty or white space only yields exactly
\* {valid: false, errors: ["Commit message cannot be empty"], warnings: []}.
C2_EmptyMessage ==
  Done /\ ~NonEmpty(message) =>
    result = [valid |-> FALSE,
              errors |-> << <<"Commit message cannot be empty">> >>,
              warnings |-> <<>>]

\* A message of white space only whose length is past the header and body
\* limits, and its result.
C2_Witness ==
  /\ Done /\ ~NonEmpty(message) /\ Len(message) > BodyMax
  /\ result.errors = <<ErrEmpty>> /\ result.warnings = <<>>

\* C3: a non-empty message whose header does not have the shape
\* <type>(<scope>): <subject> is invalid with exactly one error.
C3_MismatchOneError ==
  Done /\ NonEmpty(message) /\ ~HasShape(HeaderOf(message)) =>
    ~result.valid /\ Len(result.errors) = 1

\* A header without the shape that also draws a warning: still one error.
C3_Witness ==
  /\ Done /\ NonEmpty(message) /\ ~HasShape(HeaderOf(message))
  /\ Len(result.errors) = 1 /\ Len(result.warnings) > 0

\* C4: when the header does not have the shape, the warnings are exactly
\* the header-length warning if the header is longer than 72 characters,
\* followed by the body-length warning if the body is longer than 1000.
C4_MismatchWarnings ==
  Done /\ NonEmpty(message) /\ ~HasShape(HeaderOf(message)) =>
    result.warnings =
      (IF Len(HeaderOf(message)) > HeaderMax
       THEN <<WarnHeaderLength(Len(HeaderOf(message)))>> ELSE <<>>)
      \o (IF Len(BodyOf(message)) > BodyMax THEN <<WarnBodyLength>> ELSE <<>>)

\* A header without the shape, too long, above a body that is too long: both
\* warnings.
C4_Witness ==
  /\ Done /\ NonEmpty(message) /\ ~HasShape(HeaderOf(message))
  /\ Len(HeaderOf(message)) > HeaderMax /\ Len(BodyOf(message)) > BodyMax
  /\ Len(result.warnings) = 2

\* C5, as claimed: the format error is absent exactly when the header is an
\* optional type, an optional scope, an optional "!", ": " and a subject.
C5_OptionalType ==
  Done /\ NonEmpty(message) =>
    (~Has(result.errors, ErrFormat) <=> HasSpecShape(HeaderOf(message)))

\* C5, amended: the format error is absent exactly when the header is a type
\* of one or more word characters, an optional scope, an optional "!", a
\* colon, one or more white-space characters and a subject of one or more
\* characters, none of them a line terminator.
C5_FormatErrorIffShape ==
  Done /\ NonEmpty(message) =>
    (~Has(result.errors, ErrFormat) <=> HasShape(HeaderOf(message)))

\* A header with type, scope and "!" that draws no format error.
C5_Witness ==
  /\ Done /\ HasShape(HeaderOf(message))
  /\ \E i \in 1..Len(HeaderOf(message)) : HeaderOf(message)[i] = "("
  /\ \E i \in 1..Len(HeaderOf(message)) : HeaderOf(message)[i] = "!"
  /\ ~Has(result.errors, ErrFormat)

\* C6: for a header that has the shape, a type outside the allow-list draws
\* the warning that names it and no error, and a type inside the allow-list
\* draws no type warning.
C6_TypeWarning ==
  Done /\ NonEmpty(message) /\ HasShape(HeaderOf(message)) =>
    LET t == TypeOf(HeaderOf(message))
    IN  IF Has(validTypes, t)
        THEN \A k \in 1..Len(result.warnings) : ~IsTypeWarning(result.warnings[k])
        ELSE /\ Has(result.warnings, WarnType(t))
             /\ result.valid /\ result.errors = <<>>

\* "foo: add x" is valid and warned about the type foo.
C6_Witness ==
  /\ Done
  /\ message = <<"f","o","o",":"," ","a","d","d"," ","x">>
  /\ result.valid
  /\ result.warnings = << WarnType(<<"f","o","o">>) >>

\* C7: for a header that has the shape, an empty subject draws the error
\* "Subject cannot be empty" and makes the message invalid, a subject longer
\* than 50 characters draws the concise-subject warning and leaves the
\* message valid, and a subject of 1 to 50 characters draws neither.
C7_SubjectChecks ==
  Done /\ NonEmpty(message) =>
    LET h == HeaderOf(message)
    IN  /\ HasEmptySubject(h) =>
             Has(result.errors, ErrSubjectEmpty) /\ ~result.valid
        /\ HasShape(h) /\ Len(SubjectOf(h)) > SubjectMax =>
             Has(result.warnings, WarnSubjectLength) /\ result.valid
        /\ HasShape(h) /\ Len(SubjectOf(h)) \in 1..SubjectMax =>
             /\ ~Has(result.warnings, WarnSubjectLength)
             /\ ~Has(result.errors, ErrSubjectEmpty)

C9_PastTenseWarned ==
  Done /\ NonEmpty(message) /\ HasShape(HeaderOf(message))
       /\ BeginsWithPastTense(HeaderOf(message)) =>
    result.valid /\ Has(result.warnings, WarnImperative)

\* C10: the header-length warning is there exactly when the header is longer
\* than 72 characters, it then names the length and 50 as the limit, and the
\* message is valid exactly when the header has the shape, whatever its
\* length.
C10_HeaderLengthWarning ==
  Done /\ NonEmpty(message) =>
    LET h == HeaderOf(message)
    IN  /\ (\E k \in 1..Len(result.warnings) :
              IsHeaderLengthWarning(result.warnings[k])) <=> Len(h) > HeaderMax
        /\ Len(h) > HeaderMax =>
             Has(result.warnings,
                 <<"Header should be 50 characters or less (currently ",
                   Len(h), ")">>)
        /\ result.valid <=> HasShape(h)

\* A valid header of exactly 72 characters, past the 50 the text names, with
\* no header-length warning.
C10_Witness ==
  /\ Done /\ Len(HeaderOf(message)) = HeaderMax /\ result.valid
  /\ \A k \in 1..Len(result.warnings) :
       ~IsHeaderLengthWarning(result.warnings[k])

\* C11: a message whose header has the shape with a type of the allow-list,
\* is at most 72 characters long, whose subject is at most 50 characters and
\* begins with a listed verb, and whose body is at most 1000 characters, is
\* valid with no errors and no warnings.
C11_CleanMessage ==
  Done /\ NonEmpty(message) =>
    LET h == HeaderOf(message)
    IN  (/\ HasShape(h) /\ Has(validTypes, TypeOf(h))
         /\ Len(h) <= HeaderMax
         /\ Len(SubjectOf(h)) <= SubjectMax
         /\ BeginsWithVerb(h, SubjectStart(h))
         /\ Len(BodyOf(message)) <= BodyMax)
        => result = [valid |-> TRUE, errors |-> <<>>, warnings |-> <<>>]

\* "feat(auth): add login functionality" comes back clean.
C11_Witness ==
  /\ Done
  /\ message = <<"f","e","a","t","(","a","u","t","h",")",":"," ",
                 "a","d","d"," ","l","o","g","i","n"," ",
                 "f","u","n","c","t","i","o","n","a","l","i","t","y">>
  /\ result = [valid |-> TRUE, errors |-> <<>>, warnings |-> <<>>]

\* A list of messages: a sequence, each element a text of one piece at least.
IsMessageList(l) ==
  /\ DOMAIN l = 1..Len(l)
  /\ \A k \in 1..Len(l) : Len(l[k]) >= 1

\* {valid, errors, warnings}: a Boolean and two lists of messages.
WellFormedCommit(r) ==
  /\ DOMAIN r = {"valid", "errors", "warnings"}
  /\ r.valid \in BOOLEAN
  /\ IsMessageList(r.errors) /\ IsMessageList(r.warnings)

\* {valid} or {valid, error}: a Boolean and, if present, a text.
WellFormedBranch(r) ==
  /\ "valid" \in DOMAIN r /\ r.valid \in BOOLEAN
  /\ \/ DOMAIN r = {"valid"}
     \/ DOMAIN r = {"valid", "error"} /\ Len(r.error) >= 1

\* C12: for every input, the call of each of the two validators ends by
\* returning, never in an exception or a process exit, and what it returns
\* is a well-formed object.
C12_Total ==
  /\ pc = "done" => outcome = "returned" /\ WellFormedCommit(result)
  /\ pc = "branchDone" => outcome = "returned" /\ WellFormedBranch(branchResult)

\* A header that does not match, so that the match is null: the call
\* returned.
C12_Witness ==
  /\ pc = "done" /\ NonEmpty(message) /\ ~HasShape(HeaderOf(message))
  /\ outcome = "returned" /\ WellFormedCommit(result)

\* The slug characters as the claim lists them.
LowerDigitHyphen == LowerCase \cup Digits \cup {"-"}

\* A name of the convention: main, develop, or one of the four prefixes
\* followed by one or more lowercase letters, digits or hyphens.
Conforms(s) ==
  \/ s \in {sMain, sDevelop}
  \/ \E p \in {sFeature, sBugfix, sHotfix, sRelease} :
       /\ Len(s) > Len(p)
       /\ SubSeq(s, 1, Len(p)) = p
       /\ \A i \in (Len(p) + 1)..Len(s) : s[i] \in LowerDigitHyphen

\* C13: validateBranchName returns {valid: true} without an error field
\* exactly for the names of the convention, and valid = false with an error
\* message for every other name.
C13_BranchName ==
  pc = "branchDone" =>
    IF Conforms(name)
    THEN DOMAIN branchResult = {"valid"} /\ branchResult.valid
    ELSE /\ DOMAIN branchResult = {"valid", "error"}
         /\ ~branchResult.valid
         /\ Len(branchResult.error) >= 1

\* feature/a-9, a slug of a letter, a hyphen and a digit, is valid.
C13_Witness ==
  /\ pc = "branchDone"
  /\ name = sFeature \o <<"a", "-", "9">>
  /\ DOMAIN branchResult = {"valid"} /\ branchResult.valid

\* The remote branches are known: the fetch and the listing succeed.
ListingKnown(e) == "fetch" \notin e.fails /\ "branch-r" \notin e.fails

\* origin/HEAD can be read.
HeadKnown(e) == "symbolic-ref" \notin e.fails /\ e.head # NoHead

\* The branch the claim names: develop if origin/develop exists, otherwise
\* the target of origin/HEAD, otherwise the first of main, master, develop
\* that exists on origin, otherwise main.
ClaimedIntegrationBranch(e) ==
  IF ListingKnown(e) /\ sDevelop \in e.remote THEN sDevelop
  ELSE IF HeadKnown(e) THEN e.head
  ELSE IF ListingKnown(e) /\ sMain \in e.remote THEN sMain
  ELSE IF ListingKnown(e) /\ sMaster \in e.remote THEN sMaster
  ELSE IF ListingKnown(e) /\ sDevelop \in e.remote THEN sDevelop
  ELSE sMain

\* C14: getIntegrationBranch always returns, and returns develop if
\* origin/develop exists on the remote, otherwise the target of origin/HEAD
\* if it can be read, otherwise main, master or develop, the first whose
\* origin/ branch exists, otherwise main.
C14_IntegrationBranch ==
  pc = "integrationDone" =>
    outcome = "returned" /\ ret = ClaimedIntegrationBranch(env)

\* The message has at least one error.
HasErrors(msg) == Len(validateCommitMessage(msg).errors) >= 1

\* The last commit can be read: the repository is there and git log works.
LastCommitReadable(e) == "git-dir" \notin e.fails /\ "log" \notin e.fails

\* C15: commit:validate exits with code 1 exactly when its message has at
\* least one error, and commit:check, where the last commit can be read,
\* exits with code 1 exactly when that commit's message has at least one
\* error; otherwise they return, warnings or not.
C15_ExitIffErrors ==
  /\ pc = "stagedDone" =>
       /\ outcome \in {"exit1", "returned"}
       /\ outcome = "exit1" <=> HasErrors(message)
  /\ pc = "lastDone" /\ LastCommitReadable(env) =>
       /\ outcome \in {"exit1", "returned"}
       /\ outcome = "exit1" <=> HasErrors(message)

\* commit:check on a last commit with warnings and no error returns.
C15_Witness ==
  /\ pc = "lastDone" /\ LastCommitReadable(env)
  /\ ~HasErrors(message)
  /\ Len(validateCommitMessage(message).warnings) >= 1
  /\ outcome = "returned"

\* The base branches the detection knows of.
BaseNames == {sMain, sMaster, sDevelop}

\* C16: when branch:create is invoked without --from and creates the branch,
\* in a repository whose remote has one of main, master, develop, the branch
\* is created from one of these that the remote has, not from a fixed name.
C16_CreatedFromDetected ==
  /\ pc = "createDone" /\ outcome = "returned" /\ ~opts.hasFrom
  /\ ret.before.remote \cap BaseNames # {}
  => ret.createdFrom \in ret.before.remote \cap BaseNames

\* An issue or a warning about the name of the branch: the error of
\* validateBranchName, or the warning about being on a base branch.
AboutBranchName(m) == m[1] \in {"Branch name \"", "You're on "}

\* The current branch can be read.
BranchReadable(e) == "git-dir" \notin e.fails /\ "head" \notin e.fails

\* C17: when the current branch has a name that validateBranchName rejects,
\* the status that checkPRReadiness returns has an issue or a warning about
\* the branch name.
C17_NamingChecked ==
  /\ pc = "statusDone" /\ BranchReadable(env)
  /\ ~validateBranchName(env.current).valid
  => \/ \E k \in 1..Len(ret.issues) : AboutBranchName(ret.issues[k])
     \/ \E k \in 1..Len(ret.warnings) : AboutBranchName(ret.warnings[k])

\* The first words of the commands that pull and of those that rebase.
PullHeads == {"git pull --rebase origin ", "git pull origin "}
RebaseHeads == {"git rebase origin/", "git rebase -i origin/"}

\* One of the commands whose first words are in heads was run.
Ran(heads) == \E k \in 1..Len(trace) : trace[k].cmd[1] \in heads

\* The base branch of the command: --base, or else the detected branch.
BaseOf(e, o) == IF o.hasBase THEN o.base ELSE ClaimedIntegrationBranch(e)

\* C18: sync without --no-rebase, on a clean branch that is not main,
\* master or develop and is not the base, with origin/<base> there and no
\* git command failing, runs git fetch origin and later git rebase
\* origin/<base>.
C18_SyncRebases ==
  /\ pc = "syncDone" /\ ~opts.noRebase
  /\ ~env.dirty /\ env.fails = {}
  /\ env.current \notin BaseNames /\ env.current # BaseOf(env, opts)
  /\ BaseOf(env, opts) \in env.remote
  => \E i \in 1..Len(trace) : \E j \in (i + 1)..Len(trace) :
       /\ trace[i].cmd = <<"git fetch origin">>
       /\ trace[j].cmd = <<"git rebase origin/", BaseOf(env, opts)>>

\* C19: with uncommitted changes in the working tree, sync and rebase exit
\* with code 1 and run neither git pull nor git rebase.
C19_DirtyNeverRebased ==
  pc \in {"syncDone", "rebaseDone"} /\ env.dirty =>
    outcome = "exit1" /\ ~Ran(PullHeads) /\ ~Ran(RebaseHeads)

\* C20: rebaseBranch runs git rebase only after git rev-parse origin/<base>
\* succeeded for the same base; when origin/<base> does not resolve it exits
\* with code 1 and no rebase was run; it returns only when the rebase was
\* run and succeeded, and ends with exit code 1 otherwise.
C20_RebaseGuarded ==
  pc = "rebaseDone" =>
    /\ outcome \in {"exit1", "returned"}
    /\ \A k \in 1..Len(trace) :
         trace[k].cmd[1] \in RebaseHeads =>
           \E j \in 1..(k - 1) :
              trace[j] = [cmd |-> <<"git rev-parse origin/", trace[k].cmd[2]>>,
                          ok |-> TRUE]
    /\ (\/ BaseOf(env, opts) \notin env.remote
        \/ \E k \in 1..Len(trace) :
             trace[k].cmd[1] = "git rev-parse origin/" /\ ~trace[k].ok)
       => outcome = "exit1" /\ ~Ran(RebaseHeads)
    /\ outcome = "returned" =>
         \E k \in 1..Len(trace) :
            trace[k].cmd[1] \in RebaseHeads /\ trace[k].ok

\* The fetch of the base worked and git rev-parse origin/<base> failed: the
\* command exited with code 1 and ran no rebase.
C20_Witness ==
  /\ pc = "rebaseDone" /\ outcome = "exit1" /\ ~Ran(RebaseHeads)
  /\ \E k \in 1..Len(trace) :
       trace[k].cmd[1] = "git rev-parse origin/" /\ ~trace[k].ok

\* The line was printed, at or after position from; 0 if it was not.
PrintedAt(line, from) ==
  IF \E k \in from..Len(ret) : ret[k] = line
  THEN CHOOSE k \in from..Len(ret) :
         ret[k] = line /\ \A j \in from..(k - 1) : ret[j] # line
  ELSE 0

\* The command was run, at or after position from; 0 if it was not.
RanAt(text, from) ==
  IF \E k \in from..Len(trace) : trace[k].cmd = text
  THEN CHOOSE k \in from..Len(trace) :
         trace[k].cmd = text /\ \A j \in from..(k - 1) : trace[j].cmd # text
  ELSE 0

\* C21: inside a repository whose current branch can be read, pr prints the
\* headings of the three steps in their order, runs the commands of the
\* steps in that order (the upstream query of the branch status, git log -1
\* of the commit validation, git status of checkPRReadiness), and prints
\* the summary after them, whatever the steps find.
C21_AllStepsAndSummary ==
  pc = "prDone" /\ BranchReadable(env) =>
    LET p1 == PrintedAt(StepOne, 1)
        p2 == PrintedAt(StepTwo, p1 + 1)
        p3 == PrintedAt(StepThree, p2 + 1)
        p4 == PrintedAt(Summary, p3 + 1)
        c1 == RanAt(cUpstream, 1)
        c2 == RanAt(cLogLast, c1 + 1)
        c3 == RanAt(cStatus, c2 + 1)
    IN  /\ p1 > 0 /\ p2 > 0 /\ p3 > 0 /\ p4 > 0
        /\ c1 > 0 /\ c2 > 0 /\ c3 > 0

\* C22: inside a repository whose current branch and last commit can be
\* read, pr ends with exit code 1 exactly when the message of the last
\* commit has an error or checkPRReadiness reports an issue; with warnings
\* only, or with nothing to report, it returns.
C22_ExitCode ==
  pc = "prDone" /\ BranchReadable(env) /\ LastCommitReadable(env) =>
    /\ outcome \in {"exit1", "returned"}
    /\ outcome = "exit1" <=>
         \/ HasErrors(message)
         \/ Len(checkPRReadiness(env).issues) >= 1

\* pr on a valid last commit and a status with warnings and no issue: the
\* verdict about warnings is printed and the command returns.
C22_Witness ==
  /\ pc = "prDone" /\ BranchReadable(env) /\ LastCommitReadable(env)
  /\ ~HasErrors(message)
  /\ Len(checkPRReadiness(env).issues) = 0
  /\ Len(checkPRReadiness(env).warnings) >= 1
  /\ PrintedAt(VerdictWarnings, 1) > 0
  /\ outcome = "returned"

\* A name of one of the four supported types: feature/, bugfix/, hotfix/ or
\* release/ followed by a slug.
Typed(s) == Conforms(s) /\ s \notin {sMain, sDevelop}

\* C23: branch:create runs git switch -c <name> only for a name of one of
\* the four supported types; for every other name it exits with code 1 and
\* has run no git command.
C23_FourTypesOnly ==
  pc = "createDone" =>
    /\ Ran({"git switch -c "}) => Typed(opts.name)
    /\ ~Typed(opts.name) => outcome = "exit1" /\ trace = <<>>

\* The command ended with the error that the branch already exists.
SaidExists == Len(ret.error) >= 2 /\ ret.error[2] = "Branch \""

\* The existence check of createBranch is reached: the name is valid, the
\* repository is there and the two listings succeed.
ExistenceChecked(e, o) ==
  /\ Conforms(o.name)
  /\ e.fails \cap {"git-dir", "branch-list", "branch-r"} = {}

\* C26: where branch:create reaches its existence check, it exits with
\* "Branch already exists" exactly when a local branch has the name, or a
\* branch of origin has it; a name that only occurs inside the name of
\* another branch is not rejected.
C26_ExistsExact ==
  pc = "createDone" /\ ExistenceChecked(ret.before, opts) =>
    (SaidExists /\ outcome = "exit1")
      <=> (opts.name \in ret.before.local \/ opts.name \in ret.before.remote)

\* C24: the status that checkPRReadiness returns has readyForPR true
\* exactly when it has no issue, on the early return outside a repository
\* as on the others; warnings and info leave readyForPR as it is.
C24_ReadyIffNoIssues ==
  pc = "statusDone" =>
    /\ ret.readyForPR \in BOOLEAN
    /\ ret.readyForPR <=> Len(ret.issues) = 0

\* A status with warnings and info and no issue: the branch is ready.
C24_Witness ==
  /\ pc = "statusDone"
  /\ Len(ret.issues) = 0
  /\ Len(ret.warnings) >= 2 /\ Len(ret.info) >= 1
  /\ ret.readyForPR

\* A line of git log --oneline whose subject starts with <type> or
\* <type>(<scope>), a colon and white space: the hash ends at a, the white
\* space after it at b, and the type at c.
OnelineConforms(l) ==
  \E a \in 1..Len(l) : \E b \in (a + 1)..Len(l) : \E c \in (b + 1)..Len(l) :
    /\ AllIn(l, 1, a, HexChars)
    /\ AllIn(l, a + 1, b, WhiteSpace)
    /\ AllIn(l, b + 1, c, WordChars)
    /\ \/ c + 2 <= Len(l) /\ l[c + 1] = ":" /\ l[c + 2] \in WhiteSpace
       \/ /\ c + 1 <= Len(l) /\ l[c + 1] = "("
          /\ \E d \in (c + 3)..Len(l) :
               /\ l[d] = ")"
               /\ \A i \in (c + 2)..(d - 1) : l[i] # ")"
               /\ d + 2 <= Len(l) /\ l[d + 1] = ":" /\ l[d + 2] \in WhiteSpace

\* checkPRReadiness gets to the commits ahead of origin/develop.
AheadOfDevelopChecked(e) ==
  /\ e.fails \cap {"git-dir", "head", "status", "log"} = {}
  /\ sDevelop \in e.remote

\* C25: with commits ahead of origin/develop, the status has the warning
\* "Some commits may not follow Conventional Commits format" exactly when
\* one of these commits has a line that does not conform.
C25_WarningIffNonConforming ==
  pc = "statusDone" /\ AheadOfDevelopChecked(env) /\ Len(env.ahead) >= 1 =>
    Has(ret.warnings, WarnSomeCommits)
      <=> \E k \in 1..Len(env.ahead) : ~OnelineConforms(env.ahead[k])

\* The base branch syncBranch works with: --base, or else the branch that
\* getIntegrationBranch returned.
SyncBase(e, o) == IF o.hasBase THEN o.base ELSE getIntegrationBranch(e).value

\* syncBranch is not to rebase onto the base: the current branch is main,
\* master or develop, or it is the base, or the option rebase is false.
RebaseExcluded(e, o) ==
  \/ e.current \in BaseNames
  \/ e.current = SyncBase(e, o)
  \/ ~SyncOptionRebase(o)

\* The commands sync runs from git fetch origin on, without the rebase step.
FetchAndPull == {"git fetch origin", cUpstream[1], "git pull --rebase origin "}

\* C27: where syncBranch is not to rebase onto the base, it runs no
\* git rebase origin/<base>; if it exits, then with one of the errors from
\* before the rebase step; if it returns, it has fetched, has run nothing
\* after the fetch but the upstream query and the pull, and its last line
\* is "Successfully synced".
C27_NoBaseRebase ==
  pc = "syncDone" /\ RebaseExcluded(env, opts) =>
    /\ ~Ran({"git rebase origin/"})
    /\ ~Ran({"git rev-parse origin/"})
    /\ outcome \in {"exit1", "returned"}
    /\ outcome = "exit1" =>
         ret[Len(ret)] \in
           {ErrNotRepo, ErrNoBranch, ErrUncommitted, <<"Error during sync:">>}
    /\ outcome = "returned" =>
         /\ ret[Len(ret)] = <<"Successfully synced ", env.current>>
         /\ \E i \in 1..Len(trace) :
              /\ trace[i] = Cmd(cFetch, TRUE)
              /\ \A j \in i..Len(trace) : trace[j].cmd[1] \in FetchAndPull
         /\ env.upstream <=>
              Has(trace, Cmd(cPullRebase(env.current), PullOk(env, env.current)))

\* sync on develop with the rebase not disabled and --base main: fetched,
\* pulled, not rebased.
C27_Witness ==
  /\ pc = "syncDone" /\ outcome = "returned"
  /\ env.current = sDevelop /\ SyncOptionRebase(opts)
  /\ opts.hasBase /\ opts.base = sMain /\ sMain \in env.remote
  /\ Has(trace, Cmd(cPullRebase(sDevelop), TRUE))
  /\ ~Ran({"git rebase origin/"})
  /\ ret[Len(ret)] = <<"Successfully synced ", sDevelop>>

\* The errors of syncBranch from before its try block.
SyncPrecheckErrors == {ErrNotRepo, ErrNoBranch, ErrUncommitted}

\* One of the commands whose first words are in heads was run and failed.
Failed(heads) ==
  \E k \in 1..Len(trace) : trace[k].cmd[1] \in heads /\ ~trace[k].ok

\* C28: once sync is past its checks of the repository, the branch and the
\* working tree, it ends with exit code 1 exactly when git fetch origin
\* failed or git rebase origin/<base> failed with status 1; a failed
\* git pull --rebase gives the message of the missing upstream and the
\* command goes on to the rebase step where that step is due; a failed
\* git rev-parse origin/<base>, or a rebase that failed with another status,
\* gives a warning as the last line and the command returns.
C28_SyncFatal ==
  pc = "syncDone" /\ ret[Len(ret)] \notin SyncPrecheckErrors =>
    /\ outcome \in {"exit1", "returned"}
    /\ outcome = "exit1" <=>
         \/ Has(trace, Cmd(cFetch, FALSE))
         \/ Failed({"git rebase origin/"}) /\ env.rebaseStatus = 1
    /\ Failed({"git pull --rebase origin "}) =>
         /\ Has(ret, <<"No remote tracking branch set for ", env.current>>)
         /\ ~RebaseExcluded(env, opts) => Ran({"git rev-parse origin/"})
    /\ \/ Failed({"git rev-parse origin/"})
       \/ Failed({"git rebase origin/"}) /\ env.rebaseStatus # 1
       => /\ outcome = "returned"
          /\ ret[Len(ret)] =
               <<"Warning: Could not rebase onto ", SyncBase(env, opts)>>

\* The pull failed, the rebase onto the base was run and failed with a
\* status other than 1: the command returned.
C28_Witness ==
  /\ pc = "syncDone" /\ outcome = "returned"
  /\ Failed({"git pull --rebase origin "})
  /\ Failed({"git rebase origin/"}) /\ env.rebaseStatus = 128
  /\ ret[Len(ret)][1] = "Warning: Could not rebase onto "

\* The header ends, after its colon, in white space only.
BlankAfterColon(h) ==
  \E c \in 1..(Len(h) - 1) :
    h[c] = ":" /\ \A i \in (c + 1)..Len(h) : h[i] \in WhiteSpace

\* C29: validateCommitMessage returns at most one error, never the error
\* "Subject cannot be empty", and valid is true exactly when the message has
\* a character that is not white space and its first line has the shape, a
\* first line with only white space after the colon included.
C29_AtMostOneError ==
  Done =>
    /\ outcome = "returned"
    /\ Len(result.errors) <= 1
    /\ ~Has(result.errors, ErrSubjectEmpty)
    /\ result.valid <=> NonEmpty(message) /\ HasShape(HeaderOf(message))

\* A first line with only white space after the colon, followed by a body:
\* the message is valid and has no error.
C29_Witness ==
  /\ Done /\ NonEmpty(message)
  /\ BlankAfterColon(HeaderOf(message))
  /\ result.valid /\ result.errors = <<>>

\* The subject line of a commit in a line of git log --oneline: what follows
\* the abbreviated hash and the blank after it.
OnelineSubject(l) == SubSeq(l, RunLengthNot(l, 1, " ") + 2, Len(l))

\* C30: of the commits ahead of origin/develop that checkPRReadiness looks
\* at, every one whose subject line validateCommitMessage accepts as valid
\* is also accepted by the pattern of checkPRReadiness.
C30_PatternsAgree ==
  pc = "statusDone" /\ AheadOfDevelopChecked(env) =>
    \A k \in 1..Len(env.ahead) :
      validateCommitMessage(OnelineSubject(env.ahead[k])).valid
        => TestOnelinePattern(env.ahead[k])

====
